---------------------------- MODULE Spec2Model ----------------------------
(***************************************************************************)
(* A model of the SANDAG 2016 Household Travel Behavior Survey data        *)
(* module (src/python/hhtbs2016Data.py, class SurveyData).                 *)
(*                                                                         *)
(* Every table property of SurveyData (day, persons, trips, vehicles,      *)
(* border_trips) is a straight-line pipeline: concatenate the SDRTS and AT *)
(* extracts, recode every mapped field through its code -> label           *)
(* dictionary, run the manual recode statements in source order, derive    *)
(* keys and weights, return.  Each statement of a pipeline is one action;  *)
(* pc names the statement that runs next.  line_wkt is a loop, one         *)
(* iteration per action.  Every table property is wrapped in               *)
(* lru_cache(maxsize=1); a read of a property is one action, and so is a   *)
(* statement of the loader main.py.                                        *)
(*                                                                         *)
(* Representation.  A data frame is a sequence of rows, a row a function   *)
(* from column names to values.  Raw codes are integers, NA is the null    *)
(* code (pd.NA / an empty CSV cell), labels are strings, NaN is the null   *)
(* a recoded or text column holds.  Integer category labels (the traveler  *)
(* counts 1..10) are written as numerals.                                  *)
(***************************************************************************)
EXTENDS Integers, Sequences, FiniteSets, TLC

VARIABLES
  pc,      \* the statement that runs next ("done" / "failed" / "raised" at the end)
  src,     \* the two extracts read from disk: [sdrts |-> rows, at |-> rows]
  df,      \* the data frame the pipeline works on
  cats,    \* categories of every categorical column of df
  lines,   \* line_wkt: the argument `lines`
  points,  \* line_wkt: the local `points` of the current iteration
  wkts,    \* line_wkt: the return list `wkts`
  made,    \* the number of SurveyData objects created so far
  cache,   \* lru_cache: the entries of the cache of every table property
  built,   \* how many times the body of every table property has run
  log      \* the property reads so far, each with the table it returned

vars == <<pc, src, df, cats, lines, points, wkts, made, cache, built, log>>

\* the table properties of SurveyData, in the order main.py reads them
MainTables ==
  <<"day", "households", "location", "border_trips", "intercept", "persons", "trips",
    "vehicles">>

Properties == {MainTables[k] : k \in DOMAIN MainTables}

\* no object created, every cache empty, no body run, nothing read: the state
\* of the module after import, and the state a pipeline runs in
NoReads ==
  /\ made = 0
  /\ cache = [p \in Properties |-> <<>>]
  /\ built = [p \in Properties |-> 0]
  /\ log = <<>>

----------------------------------------------------------------------------
(* Values *)

\* the null raw code: pd.NA, the key the mappings use for an empty cell
NA == -1

\* the null of a recoded or text column (np.nan)
NaN == "NaN"

NotApplicable == "Not Applicable"
Missing == "Missing"

\* no extracts, no frame: the value of the table variables while line_wkt runs
NoFrames == [sdrts |-> <<>>, at |-> <<>>]

----------------------------------------------------------------------------
(* Bounds *)

MaxLon == 1      \* longitudes 0..MaxLon
MaxLat == 1      \* latitudes 0..MaxLat
MaxPoints == 3   \* vertices in all input lines of a call together
MaxLines == 2    \* input lines per call of line_wkt

----------------------------------------------------------------------------
(* Sequence helpers *)

Range(s) == {s[i] : i \in DOMAIN s}

\* Python's `x in list`
InSeq(x, s) == \E i \in DOMAIN s : s[i] = x

\* [g(x) for x in s]
MapSeq(s, g(_)) == [i \in DOMAIN s |-> g(s[i])]

RECURSIVE Flatten(_)
\* pd.concat of a list of frames, ignore_index=True
Flatten(ss) == IF ss = <<>> THEN <<>> ELSE Head(ss) \o Flatten(Tail(ss))

----------------------------------------------------------------------------
(* Geometry: line_wkt *)

Coords == (0..MaxLon) \X (0..MaxLat)

\* pyproj.Transformer.from_crs(EPSG:4326, crs, always_xy=True).transform:
\* x is computed from the longitude and y from the latitude; the projection
\* is one-to-one on the survey area and is not the identity.
Transform(xy) == <<100 + 3 * xy[1], 200 + 5 * xy[2]>>

Point(xy) == [type |-> "Point", coords |-> <<xy>>]

LineString(pts) == [type |-> "LineString", coords |-> pts]

\* ops.transform(transformer.transform, geom)
OpsTransform(geom) == [geom EXCEPT !.coords = MapSeq(geom.coords, Transform)]

\* shapely is_valid: a point with finite coordinates is valid, a line is valid
\* when it has at least two different vertices
IsValid(geom) ==
  \/ geom.type = "Point"
  \/ geom.type = "LineString" /\ Cardinality(Range(geom.coords)) >= 2

\* shapely .wkt: the geometry keyword followed by the coordinate list
Wkt(geom) ==
  [tag |-> IF geom.type = "Point" THEN "POINT" ELSE "LINESTRING", text |-> geom.coords]

\* the None appended for an empty or invalid line
None == [tag |-> "None", text |-> <<>>]

RECURSIVE RemoveDuplicatesFrom(_, _)
RemoveDuplicatesFrom(line, pts) ==
  IF line = <<>> THEN pts
  ELSE RemoveDuplicatesFrom(Tail(line),
         IF InSeq(Head(line), pts) THEN pts ELSE Append(pts, Head(line)))

\* a plausible slip: only a repeat of the immediately preceding vertex is dropped
RemoveDuplicatesAdjacent(line) ==
  MapSeq(SelectSeq([i \in DOMAIN line |-> <<i, line[i]>>],
                   LAMBDA e : e[1] = 1 \/ line[e[1] - 1] # e[2]),
         LAMBDA e : e[2])

\* points = []; [points.append(x) for x in line if x not in points]
RemoveDuplicates(line) == RemoveDuplicatesFrom(line, <<>>)

\* a plausible slip: `if len(line) >= 0`, so an empty line reaches the branches
LineNonEmptyAlways(line) == TRUE

\* if len(line) > 0
LineNonEmpty(line) == Len(line) > 0

\* the geometry built from the de-duplicated vertices; "raise" stands for the
\* AttributeError of reading is_valid on the None of the last branch
LineValue(pts) ==
  IF Len(pts) >= 2 THEN OpsTransform(LineString(pts))
  ELSE IF Len(pts) = 1 THEN OpsTransform(Point(pts[1]))
  ELSE [type |-> "raise", coords |-> <<>>]

RECURSIVE SumTo(_, _)
\* lens[1] + ... + lens[i]
SumTo(lens, i) == IF i = 0 THEN 0 ELSE lens[i] + SumTo(lens, i - 1)

\* the list of lines with the given lengths whose vertices are, in order, flat
SplitLines(flat, lens) ==
  [i \in DOMAIN lens |-> SubSeq(flat, SumTo(lens, i - 1) + 1, SumTo(lens, i))]

LineInit ==
  /\ \E t \in 0..MaxPoints, k \in 0..MaxLines :
       \E flat \in [1..t -> Coords], lens \in [1..k -> 0..t] :
         /\ SumTo(lens, k) = t
         /\ lines = SplitLines(flat, lens)
  /\ wkts = <<>>
  /\ NoReads
  /\ points = <<>>
  /\ pc = "line_wkt"
  /\ src = NoFrames
  /\ df = <<>>
  /\ cats = <<>>

\* one iteration of `for line in lines` on a non-empty line
LineWktIter ==
  /\ pc = "line_wkt"
  /\ Len(wkts) < Len(lines)
  /\ LET line == lines[Len(wkts) + 1]
         pts == RemoveDuplicates(line)
         value == LineValue(pts)
     IN /\ LineNonEmpty(line)
        /\ points' = pts
        /\ IF value.type = "raise"
             THEN /\ pc' = "raised"
                  /\ wkts' = wkts
             ELSE /\ pc' = pc
                  /\ wkts' = Append(wkts, IF IsValid(value) THEN Wkt(value) ELSE None)
  /\ UNCHANGED <<made, cache, built, log, src, df, cats, lines>>

\* one iteration of `for line in lines` on an empty line: wkts.append(None)
LineWktIterEmpty ==
  /\ pc = "line_wkt"
  /\ Len(wkts) < Len(lines)
  /\ ~LineNonEmpty(lines[Len(wkts) + 1])
  /\ wkts' = Append(wkts, None)
  /\ UNCHANGED <<made, cache, built, log, pc, src, df, cats, lines, points>>

\* return wkts
LineWktReturn ==
  /\ pc = "line_wkt"
  /\ Len(wkts) = Len(lines)
  /\ pc' = "done"
  /\ UNCHANGED <<made, cache, built, log, src, df, cats, lines, points, wkts>>

LineNext == LineWktIter \/ LineWktIterEmpty \/ LineWktReturn

SpecLine == LineInit /\ [][LineNext]_vars

----------------------------------------------------------------------------
(* Data-frame operations shared by the table pipelines *)

\* Series.map(mapping): a code that is no key of the mapping becomes null
Recode(m, code) == IF code \in DOMAIN m THEN m[code] ELSE NaN

\* categories=mappings[field].values()
Categories(m) == {m[k] : k \in DOMAIN m}

\* the recode loop applied to one row: every mapped column is replaced
RecodeRow(M, r) ==
  [f \in DOMAIN r |-> IF f \in DOMAIN M THEN Recode(M[f], r[f]) ELSE r[f]]

\* the category sets pd.Categorical is given in the recode loop
MappingCategories(M) == [f \in DOMAIN M |-> Categories(M[f])]

\* cat.add_categories(labels) on the columns F
AddCategories(c, F, labels) ==
  [f \in DOMAIN c |-> IF f \in F THEN c[f] \cup labels ELSE c[f]]

\* row r with value v written into the columns F that exist, and the
\* columns of F that do not exist yet created
SetFields(r, F, v) ==
  [f \in DOMAIN r \cup F |-> IF f \in F THEN v ELSE r[f]]

\* row r with the columns of F that do not exist yet created empty
WithColumns(r, F) ==
  [f \in DOMAIN r \cup F |-> IF f \in DOMAIN r THEN r[f] ELSE NaN]

\* df.loc[mask, F] = v
Loc(frame, mask(_), F, v) ==
  [i \in DOMAIN frame |->
     IF mask(frame[i]) THEN SetFields(frame[i], F, v) ELSE WithColumns(frame[i], F)]

\* a categorical column accepts only a label of its category set
CanAssign(c, F, v) == \A f \in F \cap DOMAIN c : v \in c[f]

\* row r extended or overwritten by the columns of o
Override(r, o) ==
  [f \in DOMAIN r \cup DOMAIN o |-> IF f \in DOMAIN o THEN o[f] ELSE r[f]]

\* a row reindexed to the columns C: the columns it lacks are null
Reindex(r, C, null(_)) ==
  [f \in C |-> IF f \in DOMAIN r THEN r[f] ELSE null(f)]

\* df.rename(columns=ren) followed by df[[...]] on one row
RenameRow(r, ren, keep) ==
  LET new(f) == IF f \in DOMAIN ren THEN ren[f] ELSE f
      named == {new(f) : f \in DOMAIN r}
  IN [g \in named \cap keep |-> r[CHOOSE f \in DOMAIN r : new(f) = g]]

\* comparisons of a numeric column with a number: a null compares False
NumGt(x, n) == x # NA /\ x > n
NumGe(x, n) == x # NA /\ x >= n
NumEq(x, n) == x # NA /\ x = n

\* one manual recode statement: df.loc[mask, F] = v, then control moves to `to`;
\* a label outside a column's categories makes the statement raise
Rule(from, to, mask(_), F, v) ==
  /\ pc = from
  /\ IF CanAssign(cats, F, v)
       THEN /\ df' = Loc(df, mask, F, v)
            /\ pc' = to
       ELSE /\ df' = df
            /\ pc' = "failed"
  /\ UNCHANGED <<made, cache, built, log, src, cats, lines, points, wkts>>

\* Series.fillna(v) on the columns F of one row: a null becomes v
FillRow(r, F, null(_), v) ==
  [f \in DOMAIN r |-> IF f \in F /\ r[f] = null(f) THEN v ELSE r[f]]

\* the mask of a manual recode statement on row r: a conjunction of
\* column.isin(labels) ("in") and ~column.isin(labels) ("notin"); == and != are
\* the one-label cases; a null is in no label set
Holds(r, when) ==
  \A j \in DOMAIN when :
    IF when[j][2] = "in" THEN r[when[j][1]] \in when[j][3]
    ELSE r[when[j][1]] \notin when[j][3]

\* statement k of a list of manual recode statements, run when control is at
\* it: df[cols] = df[cols].fillna(value), or df.loc[mask, cols] = value; a
\* label outside a column's categories makes the statement raise
Statement(label, stmts, null(_), after) ==
  \E k \in DOMAIN stmts :
    LET s == stmts[k]
        next == IF k = Len(stmts) THEN after ELSE label \o ToString(k + 1)
    IN /\ pc = label \o ToString(k)
       /\ IF s.kind = "fillna"
            THEN /\ df' = MapSeq(df, LAMBDA r : FillRow(r, s.cols, null, s.value))
                 /\ pc' = next
            ELSE IF CanAssign(cats, s.cols, s.value)
            THEN /\ df' = Loc(df, LAMBDA r : Holds(r, s.when), s.cols, s.value)
                 /\ pc' = next
            ELSE /\ df' = df
                 /\ pc' = "failed"
       /\ UNCHANGED <<made, cache, built, log, src, cats, lines, points, wkts>>

\* the np.NaN point_wkt appends for a point that is not valid
PointNaN == [tag |-> "NaN", text |-> <<>>]

\* one iteration of point_wkt: the WKT of the projected point; a point with a
\* null longitude or latitude is not valid
PointWkt(xy) ==
  IF xy[1] = NA \/ xy[2] = NA THEN PointNaN
  ELSE LET value == OpsTransform(Point(xy))
       IN IF IsValid(value) THEN Wkt(value) ELSE PointNaN

\* statement k of a list of df[col] = self.point_wkt(zip(df[lng], df[lat]), crs)
\* statements, each given as <<col, lng, lat>>
ShapeStatement(label, shapes, after) ==
  \E k \in DOMAIN shapes :
    LET col == shapes[k][1]
        lng == shapes[k][2]
        lat == shapes[k][3]
    IN /\ pc = label \o ToString(k)
       /\ df' = [i \in DOMAIN df |->
                   [f \in DOMAIN df[i] \cup {col} |->
                      IF f = col THEN PointWkt(<<df[i][lng], df[i][lat]>>) ELSE df[i][f]]]
       /\ pc' = IF k = Len(shapes) THEN after ELSE label \o ToString(k + 1)
       /\ UNCHANGED <<made, cache, built, log, src, cats, lines, points, wkts>>

\* the extract pairs of at most n rows in all, SDRTS rows from S, AT rows from A
Extracts(S, A, n) ==
  UNION {{[sdrts |-> s, at |-> a] : s \in [1..kj[1] -> S], a \in [1..kj[2] -> A]} :
           kj \in {x \in (0..n) \X (0..n) : x[1] + x[2] <= n}}

\* BorderTripsMappings: the `mappings` dictionary of SurveyData.border_trips (code -> label; NA is the pd.NA key, NaN the np.NaN key)
BorderTripsMappings ==
  [
    border_mode |->
     (1 :> "My own vehicle (or motorcycle)" @@
      2 :> "Other vehicle (e.g., rental, carshare, taxi, work car, friends)" @@
      3 :> "Bus/shuttle" @@ 4 :> "Walking (or biking)" @@ 5 :> "Airplane (or helicopter)" @@
      97 :> "Other way of traveling"),
    border_poe |->
     (1 :> "Otay Mesa (SR-905) Port of Entry" @@ 2 :> "San Ysidro (I-5/I-805) Port of Entry" @@
      3 :> "Tecate (SR 188) Port of Entry" @@
      4 :> "Cross-border Terminal, Tijuana Intl Airport (pedestrian only)" @@ 97 :> "Other"),
    border_purpose |->
     (1 :> "Drop-off/pick-up someone (e.g., at Tijuana Intl Airport)" @@
      2 :> "Social (visit friends/family)" @@ 3 :> "Leisure/recreation/vacation" @@
      4 :> "Work/business-related" @@ 5 :> "Personal business (e.g., medical appointment)" @@
      97 :> "Other"),
    border_duration |->
     (1 :> "Less than 1 day" @@ 2 :> "1-2 days" @@ 3 :> "3-5 days" @@ 4 :> "6-10 days" @@
      5 :> "More than 10 days"),
    border_party |->
     (1 :> "1 (I traveled alone)" @@ 2 :> "2 persons total" @@ 3 :> "3 persons total" @@
      4 :> "4 persons total" @@ 5 :> "5 or more persons total (including me)")
  ]

\* DayMappings: the `mappings` dictionary of SurveyData.day (code -> label; NA is the pd.NA key, NaN the np.NaN key)
DayMappings ==
  [
    travel_dow |->
     (1 :> "Monday" @@ 2 :> "Tuesday" @@ 3 :> "Wednesday" @@ 4 :> "Thursday" @@ 5 :> "Friday" @@
      6 :> "Saturday" @@ 7 :> "Sunday" @@ NA :> "Missing"),
    data_source |->
     (1 :> "rMove" @@ 2 :> "Online" @@ NA :> "Missing"),
    day_hhcomplete |->
     (0 :> "No" @@ 1 :> "Yes" @@ 99 :> "Not Applicable" @@ NA :> "Missing"),
    day_iscomplete |->
     (0 :> "No" @@ 1 :> "Yes" @@ NA :> "Missing"),
    survey_status |->
     (0 :> "Diary/daily summary survey not complete" @@
      1 :> "Diary/daily summary survey complete" @@ 2 :> "Diary/daily summary survey not asked" @@
      NA :> "Not Applicable"),
    proxy |->
     (1 :> "No" @@ 2 :> "Present while other member filled out survey" @@
      3 :> "Not present while other member filled out survey" @@ NA :> "Not Applicable"),
    trips_yesno |->
     (1 :> "Yes" @@ 2 :> "No" @@ NA :> "Missing"),
    notravel |->
     (1 :> "Did travel, but rMove did not collect any trips" @@
      2 :> "Not scheduled to work/took day off" @@ 3 :> "Worked at home (for pay)" @@
      4 :> "Worked around home (not for pay)" @@ 5 :> "Kids were on school vacation/break" @@
      6 :> "No available transportation" @@ 7 :> "Was sick or caring for another person" @@
      8 :> "Was waiting for visitor/delivery" @@ 9 :> "Other reason (no reason given)" @@
      10 :> "Stayed on base all day" @@ 97 :> "Other reason" @@
      (-9998) :> "Participant non-response" @@ (-9999) :> "Technical error"),
    notravel_secondary |->
     (1 :> "Did travel, but rMove did not collect any trips" @@
      2 :> "Not scheduled to work/took day off" @@ 3 :> "Worked at home (for pay)" @@
      4 :> "Worked around home (not for pay)" @@ 5 :> "Kids were on school vacation/break" @@
      6 :> "No available transportation" @@ 7 :> "Was sick or caring for another person" @@
      8 :> "Was waiting for visitor/delivery" @@ 9 :> "Other reason (no reason given)" @@
      10 :> "Stayed on base all day" @@ 97 :> "Other reason" @@
      (-9998) :> "Participant non-response" @@ (-9999) :> "Technical error" @@
      NA :> "Not Applicable"),
    loc_start |->
     (1 :> "Home" @@ 2 :> "Work (Primary)" @@ 3 :> "Work (Second Jobs)" @@ 97 :> "Other" @@
      99 :> "Not Applicable"),
    loc_end |->
     (1 :> "Home" @@ 2 :> "Work (Primary)" @@ 3 :> "Work (Second Jobs)" @@ 97 :> "Other" @@
      99 :> "Not Applicable"),
    toll_no |->
     (0 :> "Yes" @@ 1 :> "No" @@ (-9998) :> "Participant non-response" @@
      (-9999) :> "Technical error" @@ NA :> "Not Applicable"),
    toll_express |->
     (0 :> "No" @@ 1 :> "Yes" @@ (-9998) :> "Participant non-response" @@
      (-9999) :> "Technical error" @@ NA :> "Not Applicable"),
    deliver_package |->
     (0 :> "No" @@ 1 :> "Yes" @@ (-9998) :> "Participant non-response" @@
      (-9999) :> "Technical error" @@ NA :> "Not Applicable"),
    deliver_food |->
     (0 :> "No" @@ 1 :> "Yes" @@ (-9998) :> "Participant non-response" @@
      (-9999) :> "Technical error" @@ NA :> "Not Applicable"),
    deliver_work |->
     (0 :> "No" @@ 1 :> "Yes" @@ (-9998) :> "Participant non-response" @@
      (-9999) :> "Technical error" @@ NA :> "Not Applicable")
  ]

\* PersonsMappings: the `mappings` dictionary of SurveyData.persons (code -> label; NA is the pd.NA key, NaN the np.NaN key)
PersonsMappings ==
  [
    rmove_participant |->
     (0 :> "No" @@ 1 :> "Yes" @@ NA :> "Missing"),
    relationship |->
     (0 :> "Self" @@ 1 :> "Husband/Wife/Partner" @@ 2 :> "Son/Daughter/In-law" @@
      3 :> "Mother/Father/In-law" @@ 4 :> "Brother/Sister/In-law" @@ 5 :> "Other relative" @@
      6 :> "Roommate/Friend" @@ 7 :> "Household help" @@ 97 :> "Other" @@ NA :> "Missing"),
    gender |->
     (1 :> "Male" @@ 2 :> "Female" @@ NA :> "Missing"),
    age |->
     (1 :> "Under 5 years old" @@ 2 :> "5-15 years" @@ 3 :> "16-17 years" @@ 4 :> "18-24 years" @@
      5 :> "25-34 years" @@ 6 :> "35-44 years" @@ 7 :> "45-49 years" @@ 8 :> "50-54 years" @@
      9 :> "55-59 years" @@ 10 :> "60-64 years" @@ 11 :> "65-74 years" @@ 12 :> "75-79 years" @@
      13 :> "80-84 years" @@ 14 :> "85 years or older" @@ NA :> "Missing"),
    employment |->
     (1 :> "Employed full-time (paid) 35+ hours/week" @@
      2 :> "Employed part-time (paid) up to 35 hours/week" @@ 3 :> "Unpaid volunteer or intern" @@
      4 :> "Not currently employed" @@ NA :> "Missing"),
    jobs_count |->
     (0 :> "0 (age 16+)" @@ 1 :> "1" @@ 2 :> "2" @@ 3 :> "3" @@ 4 :> "4" @@ 5 :> "5+" @@
      NA :> "Missing"),
    student |->
     (1 :> "Not a student" @@ 2 :> "Part-time student" @@ 3 :> "Full-time student" @@
      NA :> "Missing"),
    education |->
     (1 :> "Less than high school" @@ 2 :> "High school graduate/GED" @@ 3 :> "Some college" @@
      4 :> "Vocational/technical training" @@ 5 :> "Associates degree" @@ 6 :> "Bachelor degree" @@
      7 :> "Graduate/post-graduate degree" @@ NA :> "Missing"),
    license |->
     (1 :> "Yes" @@ 2 :> "No" @@ NA :> "Missing"),
    military |->
     (1 :> "No current affiliation with the military" @@
      2 :> "Active duty within the San Diego region" @@
      3 :> "Active duty outside of the San Diego region" @@ 4 :> "Reserve or National Guard" @@
      5 :> "Department of Defense civilian workforce and/or contractor" @@ 6 :> "Veteran" @@
      97 :> "Other affiliation (e.g., spouse or parent of active military)" @@ NA :> "Missing"),
    ethnicity_amindian_alaska |->
     (0 :> "No" @@ 1 :> "Yes" @@ NA :> "Missing"),
    ethnicity_asian |->
     (0 :> "No" @@ 1 :> "Yes" @@ NA :> "Missing"),
    ethnicity_black |->
     (0 :> "No" @@ 1 :> "Yes" @@ NA :> "Missing"),
    ethnicity_hispanic |->
     (0 :> "No" @@ 1 :> "Yes" @@ NA :> "Missing"),
    ethnicity_hawaiian_pacific |->
     (0 :> "No" @@ 1 :> "Yes" @@ NA :> "Missing"),
    ethnicity_white |->
     (0 :> "No" @@ 1 :> "Yes" @@ NA :> "Missing"),
    ethnicity_other |->
     (0 :> "No" @@ 1 :> "Yes" @@ NA :> "Missing"),
    ethnicity_prefernot |->
     (0 :> "No" @@ 1 :> "Yes" @@ NA :> "Missing"),
    disability |->
     (1 :> "No" @@ 2 :> "Yes" @@ 99 :> "Prefer not to answer" @@ NA :> "Missing"),
    physical_activity |->
     (1 :> "I rarely or never do any physical activity" @@
      2 :> "I do some light or moderate physical activities" @@
      3 :> "I do some vigorous physical activities" @@ 99 :> "Prefer not to answer" @@
      NA :> "Missing"),
    transit_freq |->
     (1 :> "6-7 days a week" @@ 2 :> "4-5 days a week" @@ 3 :> "2-3 days a week" @@
      4 :> "1 day a week" @@ 5 :> "1-3 days per month" @@ 6 :> "Less than monthly" @@
      7 :> "Never" @@ NA :> "Missing"),
    transitpass |->
     (1 :> "Monthly Adult Regional Compass Card: $72" @@
      2 :> "Monthly Adult Premium Compass Card: $100" @@
      3 :> "Monthly Adult COASTER Compass Card: by zone" @@ 4 :> "MTS College Semester Pass" @@
      5 :> "MTS College Monthly Pass" @@ 6 :> "UC San Diego Annual U-Pass" @@
      7 :> "Monthly Youth Regional Compass Card: $36" @@
      8 :> "Monthly Youth Premium Compass Card: $50" @@
      9 :> "Monthly Youth COASTER Compass Card: $82.50" @@
      10 :> "Monthly Senior/Disabled/Medicare Regional Compass Card: $18" @@
      11 :> "Monthly Senior/Disabled/Medicare Premium Compass Card: $25" @@
      12 :> "Monthly Senior/Disabled/Medicare COASTER Compass Card: $41.25" @@
      13 :> "Other transit pass (e.g., free, employee, etc.)" @@
      14 :> "Do not have a transit pass" @@ 98 :> "Do not know" @@ NA :> "Missing"),
    schooltype |->
     (1 :> "Cared for at home" @@ 2 :> "Daycare outside home" @@ 3 :> "Preschool" @@
      4 :> "Kindergarten-Grade 5 (public or private)" @@
      5 :> "Kindergarten-Grade 5 (home school)" @@ 6 :> "Grade 6-Grade 8 (public or private)" @@
      7 :> "Grade 6-Grade 8 (home school)" @@ 8 :> "Grade 9-Grade 12 (public or private)" @@
      9 :> "Grade 9-Grade 12 (home school)" @@ 10 :> "Vocational/technical school" @@
      11 :> "2-year college" @@ 12 :> "4-year college" @@
      13 :> "Graduate or professional school" @@ 97 :> "Other" @@ NA :> "Missing"),
    school_freq |->
     (1 :> "6-7 days a week" @@ 2 :> "5 days a week" @@ 3 :> "3-4 days a week" @@
      4 :> "1-2 days a week" @@ 5 :> "1-3 days per month" @@ 6 :> "Less than monthly" @@
      7 :> "Never, only takes online classes" @@ NA :> "Missing"),
    other_school |->
     (1 :> "Never, only 1 school location" @@ 2 :> "1 or more days a week" @@
      3 :> "A few times per month" @@ 4 :> "Less than monthly" @@ NA :> "Missing"),
    school_mode |->
     (1 :> "Drive alone" @@ 2 :> "Carpool with only family/household member(s)" @@
      3 :> "Carpool with at least one person not in household" @@
      4 :> "Motorcycle/moped/scooter" @@ 5 :> "Walk/jog/wheelchair" @@ 6 :> "Bicycle" @@
      7 :> "School bus" @@ 8 :> "Bus (public transit)" @@ 9 :> "Private shuttle bus" @@
      10 :> "Vanpool" @@ 11 :> "Light Rail (e.g., Trolley, SPRINTER)" @@
      12 :> "Intercity Rail (e.g., COASTER, Amtrak)" @@ 13 :> "Paratransit" @@
      14 :> "Taxi or other hired car service (e.g., Lyft, Uber)" @@ 97 :> "Other" @@ NA :> "Missing"),
    daycare_early |->
     (1 :> "Before 6 AM" @@ 2 :> "6:00 AM" @@ 3 :> "6:15 AM" @@ 4 :> "6:30 AM" @@ 5 :> "6:45 AM" @@
      6 :> "7:00 AM" @@ 7 :> "7:15 AM" @@ 8 :> "7:30 AM" @@ 9 :> "7:45 AM" @@ 10 :> "8:00 AM" @@
      11 :> "8:15 AM" @@ 12 :> "8:30 AM" @@ 13 :> "After 8:30 AM" @@ NA :> "Missing"),
    daycare_late |->
     (1 :> "Before 5 PM" @@ 2 :> "5:00 PM" @@ 3 :> "5:15 PM" @@ 4 :> "5:30 PM" @@ 5 :> "5:45 PM" @@
      6 :> "6:00 PM" @@ 7 :> "6:15 PM" @@ 8 :> "6:30 PM" @@ 9 :> "6:45 PM" @@ 10 :> "7:00 PM" @@
      11 :> "7:15 PM" @@ 12 :> "7:30 PM" @@ 13 :> "After 7:30 PM" @@ NA :> "Missing"),
    job_type |->
     (1 :> "Has one work location (outside of home, may also telework)" @@
      2 :> "Work location regularly varies (work in different offices or jobsites)" @@
      3 :> "Work at home only (only telework or self-employed)" @@
      4 :> "Drive/Travel for a living (e.g., bus/truck driver, salesman)" @@ NA :> "Missing"),
    occupation |->
     (11 :> "Management Occupations" @@ 13 :> "Business & Financial Operations" @@
      15 :> "Computer & Mathematical" @@ 17 :> "Architecture & Engineering" @@
      19 :> "Life, Physical, & Social Science" @@ 21 :> "Community & Social Services" @@
      23 :> "Legal" @@ 25 :> "Education, Training, & Library" @@
      27 :> "Arts, Design, Entertainment, Sports, & Media" @@
      29 :> "Healthcare Practitioners & Technical" @@ 31 :> "Healthcare Support" @@
      33 :> "Protective Service" @@ 35 :> "Food Preparation & Serving Related" @@
      37 :> "Building & Grounds Cleaning/Maintenance" @@ 39 :> "Personal Care & Service" @@
      41 :> "Sales & Related" @@ 43 :> "Office & Administrative Support" @@
      45 :> "Farming, Fishing, & Forestry" @@ 47 :> "Construction & Extraction" @@
      49 :> "Installation, Maintenance, & Repair" @@ 51 :> "Production" @@
      53 :> "Transportation & Material Moving" @@ 55 :> "Military" @@ 97 :> "Other" @@
      98 :> "Do not know" @@ NA :> "Missing"),
    industry |->
     (1 :> "Accommodation (e.g., hotels/motels)" @@
      2 :> "Administrative, Support, & Waste Management Services" @@
      3 :> "Agriculture, Forestry, Fishing, & Hunting" @@
      4 :> "Arts, Entertainment, & Recreation" @@ 5 :> "Construction" @@
      6 :> "Education Services" @@ 7 :> "Food Services & Drinking Places" @@
      8 :> "Finance & Insurance" @@ 9 :> "Health Care & Social Assistance" @@
      10 :> "Information" @@ 11 :> "Management of Companies & Enterprises" @@
      12 :> "Manufacturing" @@ 13 :> "Military" @@
      14 :> "Mining, Quarrying, & Oil/Gas Extraction" @@ 15 :> "Other Services" @@
      16 :> "Professional, Scientific, & Technical Services" @@ 17 :> "Public Administration" @@
      18 :> "Real Estate, Rental, & Leasing" @@ 19 :> "Retail Trade" @@
      20 :> "Transportation & Warehousing" @@ 21 :> "Utilities" @@ 22 :> "Wholesale Trade" @@
      97 :> "Other" @@ 98 :> "Do not know" @@ NA :> "Missing"),
    hours_work |->
     (1 :> "50 or more hours" @@ 2 :> "40-49 hours" @@ 3 :> "35-39 hours" @@ 4 :> "30-34 hours" @@
      5 :> "20-29 hours" @@ 6 :> "10-19 hours" @@ 7 :> "Fewer than 10 hours" @@
      8 :> "Hours vary greatly from week to week" @@ NA :> "Missing"),
    commute_freq |->
     (1 :> "6-7 days a week" @@ 2 :> "5 days a week" @@ 3 :> "4 days a week" @@
      4 :> "2-3 days a week" @@ 5 :> "1 day a week" @@ 6 :> "9 days every 2 weeks" @@
      7 :> "1-3 days per month" @@ 8 :> "Less than monthly" @@ 9 :> "Never" @@ NA :> "Missing"),
    commute_mode |->
     (1 :> "Drive alone" @@ 2 :> "Carpool with only family/household member(s)" @@
      3 :> "Carpool with at least one person not in household" @@
      4 :> "Motorcycle/moped/scooter" @@ 5 :> "Walk/jog/wheelchair" @@ 6 :> "Bicycle" @@
      7 :> "School bus" @@ 8 :> "Bus (public transit)" @@ 9 :> "Private shuttle bus" @@
      10 :> "Vanpool" @@ 11 :> "Light Rail (e.g., Trolley, SPRINTER)" @@
      12 :> "Intercity Rail (e.g., COASTER, Amtrak)" @@ 13 :> "Paratransit" @@
      14 :> "Taxi or other hired car service (e.g., Lyft, Uber)" @@ 97 :> "Other" @@ NA :> "Missing"),
    work_flex |->
     (1 :> "No flexibility (must always arrive on time)" @@
      2 :> "Can arrive up to 15 minutes earlier/later" @@
      3 :> "Can arrive up to 30 minutes earlier/later" @@
      4 :> "Can arrive up to 45 minutes earlier/later" @@
      5 :> "Can arrive more than an hour earlier/later" @@
      6 :> "Sets own schedule (start time can vary greatly)" @@ NA :> "Missing"),
    work_park_pay |->
     (1 :> "No cost to anyone to park at/near work" @@ 2 :> "Employer pays all parking costs" @@
      3 :> "Employer offers discounted monthly parking pass" @@
      4 :> "Employer offers discounted other (e.g., daily, weekly) parking pass" @@
      5 :> "Personally pay all cost for monthly parking pass" @@
      6 :> "Personally pay all cost for daily parking" @@
      7 :> "Personally pay for parking on other (daily, biweekly, annual) schedule" @@
      96 :> "Not Applicable" @@ 98 :> "Do not know" @@ NA :> "Missing"),
    work_park_cost_dk |->
     (0 :> "No" @@ 1 :> "Yes" @@ NA :> "Not Applicable"),
    work_park_ease |->
     (1 :> "Easy to find a parking spot" @@
      2 :> "Difficult to find a parking spot (usually takes a few minutes)" @@
      96 :> "Not Applicable" @@ NA :> "Missing"),
    telecommute_freq |->
     (1 :> "6-7 days a week" @@ 2 :> "5 days a week" @@ 3 :> "4 days a week" @@
      4 :> "2-3 days a week" @@ 5 :> "1 day a week" @@ 6 :> "9 days every 2 weeks" @@
      7 :> "1-3 days per month" @@ 8 :> "Less than monthly" @@ 9 :> "Never" @@ NA :> "Missing"),
    commute_subsidy_none |->
     (0 :> "No" @@ 1 :> "Yes" @@ NA :> "Missing"),
    commute_subsidy_parking |->
     (0 :> "No" @@ 1 :> "Yes" @@ NA :> "Missing"),
    commute_subsidy_transit |->
     (0 :> "No" @@ 1 :> "Yes" @@ NA :> "Missing"),
    commute_subsidy_vanpool |->
     (0 :> "No" @@ 1 :> "Yes" @@ NA :> "Missing"),
    commute_subsidy_cash |->
     (0 :> "No" @@ 1 :> "Yes" @@ NA :> "Missing"),
    commute_subsidy_other |->
     (0 :> "No" @@ 1 :> "Yes" @@ NA :> "Missing"),
    secondhome |->
     (0 :> "No" @@ 1 :> "Yes" @@ NA :> "Missing"),
    smartphone_type |->
     (1 :> "Yes, has an Android phone" @@ 2 :> "Yes, has an iPhone" @@
      3 :> "Yes, has a Windows Phone" @@ 4 :> "Yes, has a Blackberry" @@
      5 :> "Yes, has other type of smartphone" @@ 6 :> "No, does not have a smartphone" @@
      99 :> "Not Applicable" @@ NA :> "Missing"),
    smartphone_age |->
     (1 :> "Yes" @@ 2 :> "No" @@ 99 :> "Not Applicable" @@ NA :> "Missing"),
    child_smartphone |->
     (1 :> "Yes" @@ 2 :> "No" @@ 99 :> "Not Applicable" @@ NA :> "Missing"),
    callcenter_diary |->
     (0 :> "No" @@ 1 :> "Yes" @@ 99 :> "Not Applicable" @@ NA :> "Missing"),
    mobile_diary |->
     (0 :> "No" @@ 1 :> "Yes" @@ 99 :> "Not Applicable" @@ NA :> "Missing"),
    day1_complete |->
     (0 :> "No" @@ 1 :> "Yes" @@ NA :> "Not Applicable"),
    day2_complete |->
     (0 :> "No" @@ 1 :> "Yes" @@ NA :> "Not Applicable"),
    day3_complete |->
     (0 :> "No" @@ 1 :> "Yes" @@ NA :> "Not Applicable"),
    day4_complete |->
     (0 :> "No" @@ 1 :> "Yes" @@ NA :> "Not Applicable"),
    day5_complete |->
     (0 :> "No" @@ 1 :> "Yes" @@ NA :> "Not Applicable"),
    day6_complete |->
     (0 :> "No" @@ 1 :> "Yes" @@ NA :> "Not Applicable"),
    day7_complete |->
     (0 :> "No" @@ 1 :> "Yes" @@ NA :> "Not Applicable")
  ]

\* TripsMappings: the `mappings` dictionary of SurveyData.trips (code -> label; NA is the pd.NA key, NaN the np.NaN key)
TripsMappings ==
  [
    travel_dow |->
     (1 :> "Monday" @@ 2 :> "Tuesday" @@ 3 :> "Wednesday" @@ 4 :> "Thursday" @@ 5 :> "Friday" @@
      6 :> "Saturday" @@ 7 :> "Sunday" @@ NA :> "Missing"),
    data_source |->
     (1 :> "rMove" @@ 2 :> "Online" @@ NA :> "Missing"),
    svy_complete |->
     (0 :> "No" @@ 1 :> "Yes" @@ NA :> "Missing"),
    day_hhcomplete |->
     (0 :> "No" @@ 1 :> "Yes" @@ 99 :> "Not Applicable" @@ NA :> "Missing"),
    pday_complete |->
     (0 :> "No" @@ 1 :> "Yes" @@ 99 :> "Not Applicable" @@ NA :> "Missing"),
    error |->
     (1 :> "No error" @@ 2 :> "Not moving" @@ 3 :> "Still traveling" @@ 4 :> "Made other stops" @@
      97 :> "Other error" @@ NA :> "Missing"),
    flag_teleport |->
     (0 :> "No" @@ 1 :> "Yes" @@ NA :> "Missing"),
    copied_trip |->
     (0 :> "No" @@ 1 :> "Yes" @@ NA :> "Missing"),
    analyst_merged |->
     (0 :> "No" @@ 1 :> "Yes" @@ NA :> "Missing"),
    analyst_split |->
     (0 :> "No" @@ 1 :> "Yes" @@ NA :> "Missing"),
    user_merged |->
     (0 :> "No" @@ 1 :> "Yes" @@ NA :> "Missing"),
    user_split |->
     (0 :> "No" @@ 1 :> "Yes" @@ NA :> "Missing"),
    added_trip |->
     (0 :> "No" @@ 1 :> "Yes" @@ NA :> "Missing"),
    nonproxy_derived_trip |->
     (0 :> "No" @@ 1 :> "Yes" @@ 99 :> "Not Applicable" @@ NA :> "Missing"),
    proxy_added_trip |->
     (0 :> "No" @@ 1 :> "Yes" @@ 99 :> "Not Applicable" @@ NA :> "Missing"),
    unlinked_transit_trip |->
     (0 :> "No" @@ 1 :> "Yes" @@ NA :> "Missing"),
    o_purpose |->
     (1 :> "Home" @@ 3 :> "School/Class" @@
      5 :> "Drop off, pick up, accompany person (Online diary only)" @@
      7 :> "Social/leisure/vacation activity (Online diary only)" @@ 10 :> "Primary workplace" @@
      11 :> "Work-related" @@ 12 :> "Traveling for work (e.g., going to airport)" @@
      13 :> "Volunteer work" @@ 14 :> "Other work" @@ 21 :> "K-12 School" @@
      22 :> "College/University" @@ 24 :> "Other education-related (e.g., field trip)" @@
      25 :> "Vocational education" @@ 30 :> "Grocery" @@ 31 :> "Gas" @@ 32 :> "Routine shopping" @@
      33 :> "Errands without appointment" @@ 34 :> "Medical" @@
      36 :> "Shopping for a major item" @@ 37 :> "Errands with appointment" @@
      45 :> "Pick someone up (rMove only)" @@ 46 :> "Drop someone off (rMove only)" @@
      47 :> "Accompany someone (rMove only)" @@
      48 :> "Multiple: pickup, dropoff, accompany (rMove only)" @@ 50 :> "Restaurant" @@
      51 :> "Exercise" @@ 52 :> "Social (rMove only)" @@
      53 :> "Leisure/entertainment (rMove only)" @@ 54 :> "Religious/civic (rMove only)" @@
      55 :> "Vacation/travel (rMove only)" @@ 56 :> "Family activity (rMove only)" @@
      60 :> "Change travel mode" @@ 61 :> "Other errand" @@ 62 :> "Other leisure (rMove only)" @@
      97 :> "Other purpose" @@ 99 :> "Other" @@ (-9999) :> "Technical error" @@
      (-9998) :> "Participant non-response" @@ NA :> "Missing"),
    o_purpose_inferred |->
     (1 :> "Home" @@ 3 :> "School/Class" @@
      5 :> "Drop off, pick up, accompany person (Online diary only)" @@
      7 :> "Social/leisure/vacation activity (Online diary only)" @@ 10 :> "Primary workplace" @@
      11 :> "Work-related" @@ 12 :> "Traveling for work (e.g., going to airport)" @@
      13 :> "Volunteer work" @@ 14 :> "Other work" @@ 21 :> "K-12 School" @@
      22 :> "College/University" @@ 24 :> "Other education-related (e.g., field trip)" @@
      25 :> "Vocational education" @@ 30 :> "Grocery" @@ 31 :> "Gas" @@ 32 :> "Routine shopping" @@
      33 :> "Errands without appointment" @@ 34 :> "Medical" @@
      36 :> "Shopping for a major item" @@ 37 :> "Errands with appointment" @@
      45 :> "Pick someone up (rMove only)" @@ 46 :> "Drop someone off (rMove only)" @@
      47 :> "Accompany someone (rMove only)" @@
      48 :> "Multiple: pickup, dropoff, accompany (rMove only)" @@ 50 :> "Restaurant" @@
      51 :> "Exercise" @@ 52 :> "Social (rMove only)" @@
      53 :> "Leisure/entertainment (rMove only)" @@ 54 :> "Religious/civic (rMove only)" @@
      55 :> "Vacation/travel (rMove only)" @@ 56 :> "Family activity (rMove only)" @@
      60 :> "Change travel mode" @@ 61 :> "Other errand" @@ 62 :> "Other leisure (rMove only)" @@
      97 :> "Other purpose" @@ 99 :> "Other" @@ (-9999) :> "Technical error" @@
      (-9998) :> "Participant non-response" @@ NA :> "Missing"),
    d_purpose |->
     (1 :> "Home" @@ 3 :> "School/Class" @@
      5 :> "Drop off, pick up, accompany person (Online diary only)" @@
      7 :> "Social/leisure/vacation activity (Online diary only)" @@ 10 :> "Primary workplace" @@
      11 :> "Work-related" @@ 12 :> "Traveling for work (e.g., going to airport)" @@
      13 :> "Volunteer work" @@ 14 :> "Other work" @@ 21 :> "K-12 School" @@
      22 :> "College/University" @@ 24 :> "Other education-related (e.g., field trip)" @@
      25 :> "Vocational education" @@ 30 :> "Grocery" @@ 31 :> "Gas" @@ 32 :> "Routine shopping" @@
      33 :> "Errands without appointment" @@ 34 :> "Medical" @@
      36 :> "Shopping for a major item" @@ 37 :> "Errands with appointment" @@
      45 :> "Pick someone up (rMove only)" @@ 46 :> "Drop someone off (rMove only)" @@
      47 :> "Accompany someone (rMove only)" @@
      48 :> "Multiple: pickup, dropoff, accompany (rMove only)" @@ 50 :> "Restaurant" @@
      51 :> "Exercise" @@ 52 :> "Social (rMove only)" @@
      53 :> "Leisure/entertainment (rMove only)" @@ 54 :> "Religious/civic (rMove only)" @@
      55 :> "Vacation/travel (rMove only)" @@ 56 :> "Family activity (rMove only)" @@
      60 :> "Change travel mode" @@ 61 :> "Other errand" @@ 62 :> "Other leisure (rMove only)" @@
      97 :> "Other purpose" @@ 99 :> "Other" @@ (-9999) :> "Technical error" @@
      (-9998) :> "Participant non-response" @@ NA :> "Missing"),
    d_purpose_inferred |->
     (1 :> "Home" @@ 3 :> "School/Class" @@
      5 :> "Drop off, pick up, accompany person (Online diary only)" @@
      7 :> "Social/leisure/vacation activity (Online diary only)" @@ 10 :> "Primary workplace" @@
      11 :> "Work-related" @@ 12 :> "Traveling for work (e.g., going to airport)" @@
      13 :> "Volunteer work" @@ 14 :> "Other work" @@ 21 :> "K-12 School" @@
      22 :> "College/University" @@ 24 :> "Other education-related (e.g., field trip)" @@
      25 :> "Vocational education" @@ 30 :> "Grocery" @@ 31 :> "Gas" @@ 32 :> "Routine shopping" @@
      33 :> "Errands without appointment" @@ 34 :> "Medical" @@
      36 :> "Shopping for a major item" @@ 37 :> "Errands with appointment" @@
      45 :> "Pick someone up (rMove only)" @@ 46 :> "Drop someone off (rMove only)" @@
      47 :> "Accompany someone (rMove only)" @@
      48 :> "Multiple: pickup, dropoff, accompany (rMove only)" @@ 50 :> "Restaurant" @@
      51 :> "Exercise" @@ 52 :> "Social (rMove only)" @@
      53 :> "Leisure/entertainment (rMove only)" @@ 54 :> "Religious/civic (rMove only)" @@
      55 :> "Vacation/travel (rMove only)" @@ 56 :> "Family activity (rMove only)" @@
      60 :> "Change travel mode" @@ 61 :> "Other errand" @@ 62 :> "Other leisure (rMove only)" @@
      97 :> "Other purpose" @@ 99 :> "Other" @@ (-9999) :> "Technical error" @@
      (-9998) :> "Participant non-response" @@ NA :> "Missing"),
    travelers_total |->
     (1 :> "1" @@ 2 :> "2" @@ 3 :> "3" @@ 4 :> "4" @@ 5 :> "5" @@ 6 :> "6" @@ 7 :> "7" @@
      8 :> "8" @@ 9 :> "9" @@ 10 :> "10" @@ (-9998) :> "Participant Non-response" @@
      (-9999) :> "Technical error" @@ NA :> "Missing"),
    travelers_hh |->
     (1 :> "1" @@ 2 :> "2" @@ 3 :> "3" @@ 4 :> "4" @@ 5 :> "5" @@ 6 :> "6" @@ 7 :> "7" @@
      8 :> "8" @@ 9 :> "9" @@ 10 :> "10" @@ (-9998) :> "Participant Non-response" @@
      (-9999) :> "Technical error" @@ NA :> "Missing"),
    travelers_nonhh |->
     (0 :> "0" @@ 1 :> "1" @@ 2 :> "2" @@ 3 :> "3" @@ 4 :> "4" @@ 5 :> "5+" @@
      (-9998) :> "Participant Non-response" @@ (-9999) :> "Technical error" @@ NA :> "Missing"),
    mode1 |->
     (1 :> "Walk/jog/wheelchair" @@ 2 :> "Personal bicycle" @@ 3 :> "Borrowed bicycle" @@
      4 :> "Rental bicycle" @@ 6 :> "Household vehicle 1" @@ 7 :> "Household vehicle 2" @@
      8 :> "Household vehicle 3" @@ 9 :> "Household vehicle 4" @@ 10 :> "Household vehicle 5" @@
      11 :> "Household vehicle 6" @@ 12 :> "Household vehicle 7" @@
      16 :> "Other household vehicle" @@ 17 :> "Rental car" @@ 18 :> "Carshare" @@
      21 :> "Vanpool" @@ 22 :> "Other auto" @@ 23 :> "Bus" @@ 24 :> "School bus" @@
      25 :> "Intercity bus" @@ 26 :> "Shuttle bus" @@ 27 :> "Paratransit" @@ 28 :> "Other bus" @@
      30 :> "Subway" @@ 31 :> "Airplane" @@ 32 :> "Ferry or water taxi" @@ 33 :> "Work car" @@
      34 :> "Friends car" @@ 36 :> "Taxi - Regular" @@ 37 :> "Taxi - Rideshare" @@
      38 :> "University bus or shuttle" @@ 39 :> "Rail - Light" @@ 41 :> "Rail - Intercity" @@
      42 :> "Rail - Other" @@ 43 :> "Skateboard" @@ 44 :> "Golf cart" @@ 45 :> "ATV" @@
      47 :> "Other household motorcycle" @@ 55 :> "Express bus/Rapid" @@ 97 :> "Other mode" @@
      150 :> "San Diego Coaster Line" @@ (-9999) :> "Technical error" @@
      (-9998) :> "Participant non-response" @@ NA :> "Not Applicable"),
    mode2 |->
     (1 :> "Walk/jog/wheelchair" @@ 2 :> "Personal bicycle" @@ 3 :> "Borrowed bicycle" @@
      4 :> "Rental bicycle" @@ 6 :> "Household vehicle 1" @@ 7 :> "Household vehicle 2" @@
      8 :> "Household vehicle 3" @@ 9 :> "Household vehicle 4" @@ 10 :> "Household vehicle 5" @@
      11 :> "Household vehicle 6" @@ 12 :> "Household vehicle 7" @@
      16 :> "Other household vehicle" @@ 17 :> "Rental car" @@ 18 :> "Carshare" @@
      21 :> "Vanpool" @@ 22 :> "Other auto" @@ 23 :> "Bus" @@ 24 :> "School bus" @@
      25 :> "Intercity bus" @@ 26 :> "Shuttle bus" @@ 27 :> "Paratransit" @@ 28 :> "Other bus" @@
      30 :> "Subway" @@ 31 :> "Airplane" @@ 32 :> "Ferry or water taxi" @@ 33 :> "Work car" @@
      34 :> "Friends car" @@ 36 :> "Taxi - Regular" @@ 37 :> "Taxi - Rideshare" @@
      38 :> "University bus or shuttle" @@ 39 :> "Rail - Light" @@ 41 :> "Rail - Intercity" @@
      42 :> "Rail - Other" @@ 43 :> "Skateboard" @@ 44 :> "Golf cart" @@ 45 :> "ATV" @@
      47 :> "Other household motorcycle" @@ 55 :> "Express bus/Rapid" @@ 97 :> "Other mode" @@
      150 :> "San Diego Coaster Line" @@ (-9999) :> "Technical error" @@
      (-9998) :> "Participant non-response" @@ NA :> "Not Applicable"),
    mode3 |->
     (1 :> "Walk/jog/wheelchair" @@ 2 :> "Personal bicycle" @@ 3 :> "Borrowed bicycle" @@
      4 :> "Rental bicycle" @@ 6 :> "Household vehicle 1" @@ 7 :> "Household vehicle 2" @@
      8 :> "Household vehicle 3" @@ 9 :> "Household vehicle 4" @@ 10 :> "Household vehicle 5" @@
      11 :> "Household vehicle 6" @@ 12 :> "Household vehicle 7" @@
      16 :> "Other household vehicle" @@ 17 :> "Rental car" @@ 18 :> "Carshare" @@
      21 :> "Vanpool" @@ 22 :> "Other auto" @@ 23 :> "Bus" @@ 24 :> "School bus" @@
      25 :> "Intercity bus" @@ 26 :> "Shuttle bus" @@ 27 :> "Paratransit" @@ 28 :> "Other bus" @@
      30 :> "Subway" @@ 31 :> "Airplane" @@ 32 :> "Ferry or water taxi" @@ 33 :> "Work car" @@
      34 :> "Friends car" @@ 36 :> "Taxi - Regular" @@ 37 :> "Taxi - Rideshare" @@
      38 :> "University bus or shuttle" @@ 39 :> "Rail - Light" @@ 41 :> "Rail - Intercity" @@
      42 :> "Rail - Other" @@ 43 :> "Skateboard" @@ 44 :> "Golf cart" @@ 45 :> "ATV" @@
      47 :> "Other household motorcycle" @@ 55 :> "Express bus/Rapid" @@ 97 :> "Other mode" @@
      150 :> "San Diego Coaster Line" @@ (-9999) :> "Technical error" @@
      (-9998) :> "Participant non-response" @@ NA :> "Not Applicable"),
    mode4 |->
     (1 :> "Walk/jog/wheelchair" @@ 2 :> "Personal bicycle" @@ 3 :> "Borrowed bicycle" @@
      4 :> "Rental bicycle" @@ 6 :> "Household vehicle 1" @@ 7 :> "Household vehicle 2" @@
      8 :> "Household vehicle 3" @@ 9 :> "Household vehicle 4" @@ 10 :> "Household vehicle 5" @@
      11 :> "Household vehicle 6" @@ 12 :> "Household vehicle 7" @@
      16 :> "Other household vehicle" @@ 17 :> "Rental car" @@ 18 :> "Carshare" @@
      21 :> "Vanpool" @@ 22 :> "Other auto" @@ 23 :> "Bus" @@ 24 :> "School bus" @@
      25 :> "Intercity bus" @@ 26 :> "Shuttle bus" @@ 27 :> "Paratransit" @@ 28 :> "Other bus" @@
      30 :> "Subway" @@ 31 :> "Airplane" @@ 32 :> "Ferry or water taxi" @@ 33 :> "Work car" @@
      34 :> "Friends car" @@ 36 :> "Taxi - Regular" @@ 37 :> "Taxi - Rideshare" @@
      38 :> "University bus or shuttle" @@ 39 :> "Rail - Light" @@ 41 :> "Rail - Intercity" @@
      42 :> "Rail - Other" @@ 43 :> "Skateboard" @@ 44 :> "Golf cart" @@ 45 :> "ATV" @@
      47 :> "Other household motorcycle" @@ 55 :> "Express bus/Rapid" @@ 97 :> "Other mode" @@
      150 :> "San Diego Coaster Line" @@ (-9999) :> "Technical error" @@
      (-9998) :> "Participant non-response" @@ NA :> "Not Applicable"),
    transit_access |->
     (1 :> "Walked or jogged" @@ 2 :> "Rode a bike" @@ 3 :> "Drove and parked a car" @@
      4 :> "Got dropped off" @@ 5 :> "Took a taxi" @@ 6 :> "Transferred from other transit" @@
      7 :> "Was already at the stop" @@ 97 :> "Other" @@ 99 :> "Not Applicable" @@ NA :> "Missing"),
    transit_egress |->
     (1 :> "Walked or jogged" @@ 2 :> "Rode a bike" @@ 3 :> "Drove and parked a car" @@
      4 :> "Got dropped off" @@ 5 :> "Took a taxi" @@ 6 :> "Transferred from other transit" @@
      7 :> "Was already at the stop" @@ 97 :> "Other" @@ 99 :> "Not Applicable" @@ NA :> "Missing"),
    google_mode |->
     ("DRIVE" :> "DRIVE" @@ "TRANSIT" :> "TRANSIT" @@ "WALK/BIKE" :> "WALK/BIKE" @@
      NaN :> "Not Applicable"),
    driver |->
     (1 :> "Driver" @@ 2 :> "Passenger" @@ 3 :> "Both (switched drivers during trip)" @@
      NA :> "Missing"),
    toll_no |->
     (1 :> "No" @@ 0 :> "Yes" @@ 99 :> "Not Applicable" @@ NA :> "Missing"),
    toll_express |->
     (0 :> "No" @@ 1 :> "Yes" @@ 99 :> "Not Applicable" @@ NA :> "Missing"),
    parklocation |->
     (1 :> "My own driveway/garage" @@ 2 :> "Someone elses driveway" @@
      3 :> "Parking lot/garage" @@ 4 :> "On street parking" @@ 5 :> "Park & Ride lot" @@
      6 :> "Did not park (e.g., waited, drop-off, drive-thru)" @@ 97 :> "Other" @@
      (-9999) :> "Technical error" @@ (-9998) :> "Participant non-response" @@ NA :> "Missing"),
    parktype |->
     (1 :> "Free parking (no cost)" @@ 2 :> "Used a parking pass (any type)" @@
      3 :> "Paid via cash, credit card, or ticket(s)" @@
      4 :> "Reserved parking service (e.g., ParkingPanda)" @@ 5 :> "Another person paid" @@
      97 :> "Other" @@ (-9999) :> "Technical error" @@ (-9998) :> "Participant non-response" @@
      NA :> "Missing"),
    park_cost_dk |->
     (0 :> "No" @@ 1 :> "Yes" @@ NA :> "Missing"),
    taxitype |->
     (1 :> "I paid the fare myself (no reimbursement)" @@ 2 :> "Employer paid (I am reimbursed)" @@
      3 :> "Split/shared fare with other(s)" @@ 4 :> "Someone else paid 100% (all of taxi fare)" @@
      97 :> "Other" @@ (-9999) :> "Technical error" @@ (-9998) :> "Participant non-response" @@
      NA :> "Missing"),
    taxi_cost_dk |->
     (0 :> "No" @@ 1 :> "Yes" @@ NA :> "Missing"),
    airtype |->
     (1 :> "Personally paid the airfare cost" @@ 2 :> "Employer paid 100%" @@
      3 :> "Used miles/points to purchase flight" @@
      4 :> "Someone else paid 100% (all of airfare cost)" @@ 97 :> "Other" @@
      (-9999) :> "Technical error" @@ (-9998) :> "Participant non-response" @@ NA :> "Missing"),
    airfare_cost_dk |->
     (0 :> "No" @@ 1 :> "Yes" @@ NA :> "Missing"),
    bustype |->
     ((-9999) :> "Technical error" @@ (-9998) :> "Participant non-response" @@
      1 :> "Free (no cost)" @@ 2 :> "Used pass (any type)" @@
      3 :> "Cash, credit card, or ticket(s)" @@ 97 :> "Other" @@ 98 :> "Do not know" @@
      NA :> "Missing"),
    bus_cost_dk |->
     (0 :> "No" @@ 1 :> "Yes" @@ NA :> "Missing"),
    railtype |->
     (1 :> "Free (no cost)" @@ 2 :> "Used pass (any type)" @@
      3 :> "Cash, credit card, or ticket(s)" @@ 97 :> "Other" @@ 98 :> "Do not know" @@
      (-9999) :> "Technical error" @@ (-9998) :> "Participant non-response" @@ NA :> "Missing"),
    rail_cost_dk |->
     (0 :> "No" @@ 1 :> "Yes" @@ NA :> "Missing"),
    ferrytype |->
     (1 :> "Free (no cost)" @@ 2 :> "Used pass (any type)" @@
      3 :> "Cash, credit card, or ticket(s)" @@ 97 :> "Other" @@ 98 :> "Do not know" @@
      NA :> "Missing"),
    ferry_cost_dk |->
     (0 :> "No" @@ 1 :> "Yes" @@ NA :> "Missing"),
    parkride_lot |->
     (1 :> "Lot #16 Poway Rd at Sabre Springs Pkwy" @@ 2 :> "Lot #17 I-8 at Taylor St" @@
      3 :> "Lot #20 I-805 at Governor Dr" @@
      4 :> "Lot #24 I-805 at Mira Mesa Blvd & Vista Sorrento Pkwy" @@
      5 :> "Lot #26 Carmel Mountain Rd at Rancho Carmel Dr" @@
      6 :> "Lot #31 SR 56 at Rancho Carmel Dr" @@
      7 :> "Lot #4 Carmel Mountain Rd at Freeport Rd" @@ 8 :> "Lot #43 I-5 at Gilman Dr" @@
      9 :> "Lot #51 I-15 at Rancho Penasquitos Blvd" @@
      10 :> "Lot #53 Carmel Mountain Rd at Paseo Cardiel" @@
      11 :> "Lot #57 Carmel Mountain Rd at Stoney Creek Rd" @@
      12 :> "Lot #6 I-15 at Mira Mesa Blvd" @@ 13 :> "Lot #65 I-15 at Rancho Bernardo Rd" @@
      14 :> "Lot #7 I-5 at Carmel Valley Rd & Sorrento Valley Rd" @@
      15 :> "Lot #76 I-15 at Scripps Poway Pkwy" @@ 16 :> "Lot #78 I-805 at Childrens Way" @@
      17 :> "Lot #80 Caliente Ave" @@ 18 :> "Lot #1 SR 94 at Sweetwater Springs Blvd" @@
      19 :> "Lot #28 SR 94 at Potrero Post Office" @@ 20 :> "Lot #33 I-15 at Deer Springs Rd" @@
      21 :> "Lot #34 I-15 at Mountain Meadow Rd" @@ 22 :> "Lot #35 I-15 at Gopher Canyon Rd" @@
      23 :> "Lot #37 SR 94 at Avocado Blvd" @@ 24 :> "Lot #40 SR 54 at Jamacha Blvd" @@
      25 :> "Lot #71 Sweetwater Springs Blvd at Austin Dr" @@ 26 :> "Lot #11 SR 78 at Broadway" @@
      27 :> "Lot #3 Felicita Ave at Escondido Blvd" @@ 28 :> "Lot #30 I-15 at El Norte Pkwy" @@
      29 :> "Lot #38 7 Oakes Rd at El Norte Pkwy" @@ 30 :> "Lot #81 Westfield North County" @@
      31 :> "Lot #22 I-8 at Murray Dr" @@ 32 :> "Lot #59 Bancroft Dr at Grossmont Blvd" @@
      33 :> "Lot #60 Severin Dr at Bancroft Dr" @@ 34 :> "Lot #61 Severin Dr at Murray Dr" @@
      35 :> "Lot #8 Lemon Grove Ave at High St" @@ 36 :> "Lot #39 SR 78 at College Blvd (South)" @@
      37 :> "Lot #44 I-5 at SR 78 & Moreno St" @@ 38 :> "Lot #45 SR 78 at College Blvd (North)" @@
      39 :> "Lot #5 Maxson St at Barnes St" @@ 40 :> "Lot #73 Mission Ave at Frontier Dr" @@
      41 :> "Lot #32 I-5 at La Costa Ave" @@ 42 :> "Lot #47 I-5 at Birmingham Dr" @@
      43 :> "Lot #62 Encinitas Blvd at Calle Magdelena" @@ 44 :> "Lot #10 SR 67 at Mapleview St" @@
      45 :> "Lot #2 SR 67 at Riverford Rd & Woodside Ave" @@
      46 :> "Lot #42 I-8 at Lake Jennings Park Rd" @@ 47 :> "Lot #48 Twin Peaks Rd at Budwin Ln" @@
      48 :> "Lot #77 SR 67 at Poway Rd" @@ 49 :> "Lot #25 SR 54 at Washington Ave" @@
      50 :> "Lot #41 I-8 at Los Coches Rd" @@ 51 :> "Lot #63 SR 67 at Day St" @@
      52 :> "Lot #75 SR 67 at Dye Rd" @@ 53 :> "Lot #70 Mission Gorge Rd at Big Rock Dr" @@
      54 :> "Lot #72 North Magnolia Ave at Alexander Way" @@
      55 :> "Lot #50 Telegraph Canyon Rd at Paseo Del Ray" @@
      56 :> "Lot #56 East H St at Buena Vista Way" @@ 57 :> "Lot #46 SR 76 at Sweetgrass Ln" @@
      58 :> "Lot #29 I-8 at Japatul Valley Rd" @@ 59 :> "Lot #69 SR 78 at Barham Dr" @@
      60 :> "Lot #19 I-15 at SR 76" @@ 61 :> "Lot #21 SR 78 at Sunset Dr & Seaview Pl" @@
      62 :> "Lot #12 Lemon Grove Ave at Lincoln St" @@ 63 :> "Lot #9 I-805 at Sweetwater Rd" @@
      NA :> "Not Applicable"),
    parkride_city |->
     (1 :> "Bonsall" @@ 2 :> "Chula Vista" @@ 3 :> "Descanso" @@ 4 :> "El Cajon" @@
      5 :> "Encinitas" @@ 6 :> "Escondido" @@ 7 :> "La Mesa" @@ 8 :> "Lakeside" @@
      9 :> "Lemon Grove" @@ 10 :> "National City" @@ 11 :> "Oceanside" @@ 12 :> "Pala" @@
      13 :> "Poway" @@ 14 :> "Ramona" @@ 15 :> "San Diego" @@ 16 :> "San Diego County" @@
      17 :> "San Marcos" @@ 18 :> "Santee" @@ 19 :> "Vista" @@ NA :> "Not Applicable")
  ]

\* VehiclesMappings: the `mappings` dictionary of SurveyData.vehicles (code -> label; NA is the pd.NA key, NaN the np.NaN key)
VehiclesMappings ==
  [
    fuel |->
     (1 :> "Gas" @@ 2 :> "Diesel" @@ 3 :> "Hybrid" @@ 4 :> "Electric" @@ 5 :> "Flex Fuel" @@
      97 :> "Other"),
    obtain |->
     (1 :> "Own" @@ 2 :> "Lease" @@ 3 :> "Employer/Institutional Car" @@ 97 :> "Other"),
    tolltransp |->
     (1 :> "No" @@ 2 :> "Yes"),
    respark_pass |->
     (1 :> "Yes, vehicle has permit for parking at/near residence" @@
      2 :> "No pass needed - typically park at residence" @@
      3 :> "No pass needed - typically park on street" @@
      4 :> "No pass needed - typically park elsewhere"),
    respark_pass_dontknow_cost |->
     (0 :> "No" @@ 1 :> "Yes" @@ NA :> "Not Applicable")
  ]

\* HouseholdsMappings: the `mappings` dictionary of SurveyData.households (code -> label; NA is the pd.NA key, NaN the np.NaN key)
HouseholdsMappings ==
  [
    sample_segment |->
     ("AT segment" :> "AT segment" @@ "Hispanic oversample" :> "Hispanic oversample" @@
      "Other oversample" :> "Other oversample" @@ "Regular" :> "Regular" @@
      "Transportation oversample" :> "Transportation oversample"),
    hhgroup |->
     (1 :> "Group 1: rMove only" @@ 3 :> "Group 3: Online diary only" @@
      4 :> "Group 4: Split HH: some rMove, some online diary" @@
      5 :> "Group 5: AT/Intercept (rMove only)" @@ NA :> "Missing"),
    callcenter_recruit |->
     (0 :> "Recruit survey completed online" @@ 1 :> "Recruit survey completed via call center" @@
      99 :> "Not Applicable" @@ NA :> "Missing"),
    mobile_recruit |->
     (0 :> "Recruit survey was not completed on mobile device" @@
      1 :> "Recruit survey was completed on mobile device" @@ NA :> "Missing"),
    participate_future_studies |->
     (1 :> "Yes" @@ 2 :> "No" @@ NA :> "Missing"),
    hh_iscomplete |->
     (0 :> "No" @@ 1 :> "Yes" @@ NA :> "Missing"),
    language_pref |->
     (1 :> "English" @@ 2 :> "Spanish" @@ 97 :> "Other" @@ NA :> "Missing"),
    hhsize |->
     (0 :> "0" @@ 1 :> "1" @@ 2 :> "2" @@ 3 :> "3" @@ 4 :> "4" @@ 5 :> "5" @@ 6 :> "6" @@
      7 :> "7" @@ 8 :> "8" @@ 9 :> "9" @@ 10 :> "10" @@ 11 :> "11" @@ 12 :> "12+" @@ NA :> "Missing"),
    numadults |->
     (0 :> "0" @@ 1 :> "1" @@ 2 :> "2" @@ 3 :> "3" @@ 4 :> "4" @@ 5 :> "5" @@ 6 :> "6" @@
      7 :> "7" @@ 8 :> "8" @@ 9 :> "9" @@ 10 :> "10" @@ 11 :> "11" @@ 12 :> "12+" @@ NA :> "Missing"),
    numkids |->
     (0 :> "0" @@ 1 :> "1" @@ 2 :> "2" @@ 3 :> "3" @@ 4 :> "4" @@ 5 :> "5" @@ 6 :> "6" @@
      7 :> "7" @@ 8 :> "8" @@ 9 :> "9" @@ 10 :> "10" @@ 11 :> "11+" @@ NA :> "Missing"),
    numworkers |->
     (0 :> "0" @@ 1 :> "1" @@ 2 :> "2" @@ 3 :> "3" @@ 4 :> "4" @@ 5 :> "5" @@ 6 :> "6" @@
      7 :> "7" @@ 8 :> "8" @@ 9 :> "9" @@ 10 :> "10" @@ 11 :> "11+" @@ NA :> "Missing"),
    vehicle_count |->
     (0 :> "0" @@ 1 :> "1" @@ 2 :> "2" @@ 3 :> "3" @@ 4 :> "4" @@ 5 :> "5" @@ 6 :> "6" @@
      7 :> "7+" @@ NA :> "Missing"),
    bicycle_count |->
     (0 :> "0" @@ 1 :> "1" @@ 2 :> "2" @@ 3 :> "3" @@ 4 :> "4" @@ 5 :> "5" @@ 6 :> "6" @@
      7 :> "7" @@ 8 :> "8" @@ 9 :> "9" @@ 10 :> "10+" @@ NA :> "Missing"),
    share_car |->
     (0 :> "No" @@ 1 :> "Yes" @@ NA :> "Missing"),
    share_bike |->
     (0 :> "No" @@ 1 :> "Yes" @@ NA :> "Missing"),
    share_vanpool |->
     (0 :> "No" @@ 1 :> "Yes" @@ NA :> "Missing"),
    res_duration |->
     (1 :> "Less than a year" @@ 2 :> "Between 1 and 2 years" @@ 3 :> "Between 2 and 3 years" @@
      4 :> "Between 3 and 5 years" @@ 5 :> "Between 5 and 10 years" @@
      6 :> "Between 10 and 20 years" @@ 7 :> "More than 20 years" @@ NA :> "Missing"),
    rent_own |->
     (1 :> "Own/Buying (paying mortgage)" @@ 2 :> "Rent" @@ 3 :> "Provided by job or military" @@
      97 :> "Other" @@ 99 :> "Prefer not to answer" @@ NA :> "Missing"),
    res_type |->
     (1 :> "Single-family house (detached house)" @@ 2 :> "Townhouse (attached house)" @@
      3 :> "Building with 3 or fewer apartments/condos" @@
      4 :> "Building with 4 or more apartments/condos" @@ 5 :> "Mobile home/trailer" @@
      6 :> "Dorm, barracks, or institutional housing" @@
      97 :> "Other (including boat, RV, van, etc.)" @@ NA :> "Missing"),
    hhincome_detailed |->
     (1 :> "Under $15,000" @@ 2 :> "$15,000-$29,999" @@ 3 :> "$30,000-$44,999" @@
      4 :> "$45,000-$59,999" @@ 5 :> "$60,000-$74,999" @@ 6 :> "$75,000-$99,999" @@
      7 :> "$100,000-$124,999" @@ 8 :> "$125,000-$149,999" @@ 9 :> "$150,000-$199,999" @@
      10 :> "$200,000-$249,999" @@ 11 :> "$250,000 or more" @@ 99 :> "Prefer not to answer" @@
      NA :> "Missing"),
    hhincome_broad |->
     (1 :> "Under $30,000" @@ 2 :> "$30,000-$59,999" @@ 3 :> "$60,000-$99,999" @@
      4 :> "$100,000-$149,999" @@ 5 :> "$150,000 or more" @@ 99 :> "Prefer not to answer" @@
      NA :> "Missing"),
    tool_paper |->
     (0 :> "No" @@ 1 :> "Yes" @@ NA :> "Missing"),
    tool_freq_paper |->
     (1 :> "Less than once a week" @@ 2 :> "A few times a week" @@ 3 :> "Daily or more" @@
      NA :> "Not Applicable"),
    tool_carnav |->
     (0 :> "No" @@ 1 :> "Yes" @@ NA :> "Missing"),
    tool_freq_carnav |->
     (1 :> "Less than once a week" @@ 2 :> "A few times a week" @@ 3 :> "Daily or more" @@
      NA :> "Not Applicable"),
    tool_511sd |->
     (0 :> "No" @@ 1 :> "Yes" @@ NA :> "Missing"),
    tool_freq_511sd |->
     (1 :> "Less than once a week" @@ 2 :> "A few times a week" @@ 3 :> "Daily or more" @@
      NA :> "Not Applicable"),
    tool_apple |->
     (0 :> "No" @@ 1 :> "Yes" @@ NA :> "Missing"),
    tool_freq_apple |->
     (1 :> "Less than once a week" @@ 2 :> "A few times a week" @@ 3 :> "Daily or more" @@
      NA :> "Not Applicable"),
    tool_car2go |->
     (0 :> "No" @@ 1 :> "Yes" @@ NA :> "Missing"),
    tool_freq_car2go |->
     (1 :> "Less than once a week" @@ 2 :> "A few times a week" @@ 3 :> "Daily or more" @@
      NA :> "Not Applicable"),
    tool_google |->
     (0 :> "No" @@ 1 :> "Yes" @@ NA :> "Missing"),
    tool_freq_google |->
     (1 :> "Less than once a week" @@ 2 :> "A few times a week" @@ 3 :> "Daily or more" @@
      NA :> "Not Applicable"),
    tool_icommutesd |->
     (0 :> "No" @@ 1 :> "Yes" @@ NA :> "Missing"),
    tool_freq_icommutesd |->
     (1 :> "Less than once a week" @@ 2 :> "A few times a week" @@ 3 :> "Daily or more" @@
      NA :> "Not Applicable"),
    tool_lyft |->
     (0 :> "No" @@ 1 :> "Yes" @@ NA :> "Missing"),
    tool_freq_lyft |->
     (1 :> "Less than once a week" @@ 2 :> "A few times a week" @@ 3 :> "Daily or more" @@
      NA :> "Not Applicable"),
    tool_mapmy |->
     (0 :> "No" @@ 1 :> "Yes" @@ NA :> "Missing"),
    tool_freq_mapmy |->
     (1 :> "Less than once a week" @@ 2 :> "A few times a week" @@ 3 :> "Daily or more" @@
      NA :> "Not Applicable"),
    tool_mapquest |->
     (0 :> "No" @@ 1 :> "Yes" @@ NA :> "Missing"),
    tool_freq_mapquest |->
     (1 :> "Less than once a week" @@ 2 :> "A few times a week" @@ 3 :> "Daily or more" @@
      NA :> "Not Applicable"),
    tool_sdmts |->
     (0 :> "No" @@ 1 :> "Yes" @@ NA :> "Missing"),
    tool_freq_sdmts |->
     (1 :> "Less than once a week" @@ 2 :> "A few times a week" @@ 3 :> "Daily or more" @@
      NA :> "Not Applicable"),
    tool_nctd |->
     (0 :> "No" @@ 1 :> "Yes" @@ NA :> "Missing"),
    tool_freq_nctd |->
     (1 :> "Less than once a week" @@ 2 :> "A few times a week" @@ 3 :> "Daily or more" @@
      NA :> "Not Applicable"),
    tool_waze |->
     (0 :> "No" @@ 1 :> "Yes" @@ NA :> "Missing"),
    tool_freq_waze |->
     (1 :> "Less than once a week" @@ 2 :> "A few times a week" @@ 3 :> "Daily or more" @@
      NA :> "Not Applicable"),
    tool_uber |->
     (0 :> "No" @@ 1 :> "Yes" @@ NA :> "Missing"),
    tool_freq_uber |->
     (1 :> "Less than once a week" @@ 2 :> "A few times a week" @@ 3 :> "Daily or more" @@
      NA :> "Not Applicable"),
    tool_other |->
     (0 :> "No" @@ 1 :> "Yes" @@ NA :> "Missing"),
    tool_freq_other |->
     (1 :> "Less than once a week" @@ 2 :> "A few times a week" @@ 3 :> "Daily or more" @@
      NA :> "Not Applicable"),
    tool_none |->
     (0 :> "No" @@ 1 :> "Yes" @@ NA :> "Missing"),
    border_freq_1 |->
     (0 :> "0" @@ 1 :> "1" @@ 2 :> "2" @@ 3 :> "3" @@ 4 :> "4" @@ 5 :> "5" @@ 6 :> "6" @@
      7 :> "7" @@ 8 :> "8" @@ 9 :> "9" @@ 10 :> "10+" @@ 98 :> "Do not know" @@ NA :> "Missing")
  ]

\* InterceptMappings: the `mappings` dictionary of SurveyData.intercept (code -> label; NA is the pd.NA key, NaN the np.NaN key)
InterceptMappings ==
  [
    status |->
     (0 :> "Incomplete" @@ 1 :> "Complete" @@ NA :> "Missing"),
    pilot_study |->
     (0 :> "No" @@ 1 :> "Yes" @@ NA :> "Missing"),
    origin_purpose_1_1 |->
     (1 :> "My home" @@ 2 :> "My work or a work-related place" @@ 3 :> "My school" @@
      4 :> "Someone elses home" @@
      5 :> "A business (e.g., shopping, errand, banking, doctor, etc.)" @@ 6 :> "A restaurant" @@
      7 :> "A leisure activity (e.g., museum, gym, sporting event, etc.)" @@
      8 :> "Pickup or drop-off child at daycare, school, etc." @@ 9 :> "Other" @@ NA :> "Missing"),
    employment_int_1_1 |->
     (1 :> "Employed full-time (paid) 35+ hours/week" @@
      2 :> "Employed part-time (paid) up to 35 hours/week" @@ 3 :> "Unpaid volunteer or intern" @@
      4 :> "Not currently employed" @@ NA :> "Missing"),
    student_int_1_1 |->
     (1 :> "Not a student" @@ 2 :> "Enrolled in higher education" @@
      3 :> "Enrolled in high school (grades 9-12)" @@
      4 :> "Enrolled in grade school or middle school (grades K-8)" @@ NA :> "Missing"),
    dest_purpose_1_1 |->
     (1 :> "My home" @@ 2 :> "My work or a work-related place" @@ 3 :> "My school" @@
      4 :> "Someone elses home" @@
      5 :> "A business (e.g., shopping, errand, banking, doctor, etc.)" @@ 6 :> "A restaurant" @@
      7 :> "A leisure activity (e.g., museum, gym, sporting event, etc.)" @@
      8 :> "Pickup or drop-off child at daycare, school, etc." @@ 9 :> "Other" @@ NA :> "Missing"),
    distance_beeline_agg |->
     (0 :> "0-2 miles" @@ 2 :> "2-4 miles" @@ 4 :> "4-6 miles" @@ 6 :> "6-8 miles" @@
      8 :> "8-10 miles" @@ 10 :> "10-12 miles" @@ 12 :> "12-14 miles" @@ 14 :> "14-16 miles" @@
      16 :> "16-18 miles" @@ 18 :> "18-20 miles" @@ 20 :> "20 miles or more" @@ NA :> "Missing"),
    work_int_1_1 |->
     (1 :> "Yes" @@ 2 :> "No" @@ 3 :> "Not Applicable" @@ NA :> "Missing"),
    work_int_1_2 |->
     (1 :> "Yes" @@ 2 :> "No" @@ 3 :> "Not Applicable" @@ NA :> "Missing"),
    school_int_1_1 |->
     (1 :> "Yes" @@ 2 :> "No" @@ 3 :> "Not Applicable" @@ NA :> "Missing"),
    school_int_1_2 |->
     (1 :> "Yes" @@ 2 :> "No" @@ 3 :> "Not Applicable" @@ NA :> "Missing"),
    vehicle_count_1_1 |->
     (0 :> "0" @@ 1 :> "1" @@ 2 :> "2" @@ 3 :> "3" @@ 4 :> "4" @@ 5 :> "5" @@ 6 :> "6" @@
      7 :> "7+" @@ NA :> "Missing"),
    age_int_1_1 |->
     (1 :> "16-17 years" @@ 2 :> "18-24 years" @@ 3 :> "25-34 years" @@ 4 :> "35-44 years" @@
      5 :> "45-49 years" @@ 6 :> "50-54 years" @@ 7 :> "55-59 years" @@ 8 :> "60-64 years" @@
      9 :> "65 years or older" @@ NA :> "Missing"),
    smartphone_int_1_1 |->
     (1 :> "Yes, an Android smartphone" @@ 2 :> "Yes, an Apple smartphone" @@
      3 :> "Yes, another type of smartphone" @@ 4 :> "No, I do not own a smartphone" @@
      NA :> "Missing"),
    resident_int_1_1 |->
     (1 :> "Yes" @@ 2 :> "No" @@ NA :> "Missing"),
    bikeparty_1_1 |->
     (1 :> "0" @@ 2 :> "1" @@ 3 :> "2" @@ 4 :> "3" @@ 5 :> "4" @@ 6 :> "5+" @@ NA :> "Missing"),
    bikeshare_1_1 |->
     (1 :> "Yes" @@ 2 :> "No" @@ NA :> "Missing"),
    gender_1_1 |->
     (1 :> "Male" @@ 2 :> "Female" @@ 3 :> "Do not know" @@ NA :> "Missing"),
    intercept_location_1_1 |->
     (1 :> "1 - (Oceanside) - S. Pacific Street and Tyson St" @@
      2 :> "2 - (Oceanside) - Rail Trail and Elm Street" @@
      3 :> "3 - (Oceanside) - N Coast Highway and Topeka St (8/16/16 - 2/05/17)" @@
      4 :> "4 - (San Marcos) - Valpreda Rd and Mission Rd" @@
      5 :> "5 - (San Marcos) - Campus Way and Campus View Dr" @@
      6 :> "6 - (Escondido) - Rock Springs Rd and W Mission Ave" @@
      7 :> "7 - (Escondido) - Centre City Pkwy and W Valley Pkwy" @@
      8 :> "8 - (Solana Beach) - Coast Highway and Lomas Santa Fe/Plaza St" @@
      9 :> "9 - (Chula Vista) - Broadway, Between E Street and Flower St" @@
      10 :> "10 - (San Diego - La Jolla) - N Torrey Pines Rd and La Jolla Shores Dr" @@
      11 :> "11 - (San Diego - La Jolla) - Gilman Dr between Osler Ln and La Jolla Village Dr" @@
      12 :> "12 - (San Diego - Pacific Beach) - Fanuel St and Crown Point Bike Path" @@
      13 :> "13 - (San Diego - Pacific Beach) - Ingraham St and Hornblend St" @@
      14 :> "14 - (San Diego - Downtown) - Union St and Ash St" @@
      15 :> "15 - (San Diego - Downtown) - 4th Ave and C St" @@
      16 :> "16 - (San Diego - Downtown) - 5th Ave and Broadway (8/16/16 - 02/05/17)" @@
      17 :> "17 - (San Diego - Downtown) - 10th Ave and Market St" @@
      18 :> "18 - (San Diego - North Park) - Park Blvd and Myrtle St" @@
      19 :> "19 - (San Diego - North Park) - 30th St and University Ave" @@
      20 :> "20 - (San Diego - North Park) - Oregon St and El Cajon Blvd" @@
      21 :> "21 - (San Diego - North Park) - Utah St and Meade Ave" @@
      22 :> "22 - (San Diego - College Area) - Collwood Blvd and Montezuma Rd" @@
      23 :> "23 - (San Diego - College Area) - E Campus Dr and Montezuma Rd" @@
      24 :> "24 - (El Cajon) - Orlando St and Main St" @@
      25 :> "25 - (El Cajon) - Jamacha Road and E. Washington Ave" @@ 26 :> "26 - Other" @@
      27 :> "3 - (Oceanside) - N Coast Highway and Mission Ave (2/06/17 - 2/16/17)" @@
      28 :> "16 - (San Diego - Downtown) - 5th Ave, between Elm St and Fir St (2/06/17 - 2/16/17)" @@
      NA :> "Missing"),
    intercept_location_dir_1_1 |->
     (1 :> "North" @@ 2 :> "East" @@ 3 :> "South" @@ 4 :> "West" @@ NA :> "Missing"),
    language_1_1 |->
     (1 :> "English" @@ 2 :> "Spanish" @@ 3 :> "Other" @@ NA :> "Missing"),
    rmove_qualify |->
     (0 :> "No" @@ 1 :> "Yes" @@ NA :> "Missing"),
    optout_1_1 |->
     (0 :> "No" @@ 1 :> "Yes" @@ NA :> "Not Applicable"),
    rmove_participate |->
     (0 :> "No" @@ 1 :> "Yes" @@ NA :> "Missing"),
    rmove_complete |->
     (0 :> "No" @@ 1 :> "Yes" @@ NA :> "Not Applicable"),
    recruit_complete |->
     (0 :> "No (dropped out)" @@ 1 :> "Yes" @@ NA :> "Not Applicable"),
    survey_time_peak |->
     (0 :> "No" @@ 1 :> "Yes" @@ NA :> "Missing"),
    expansion_site |->
     (1 :> "1 - (Oceanside) - S. Pacific Street and Tyson St" @@
      2 :> "2 - (Oceanside) - Rail Trail and Elm Street" @@
      3 :> "3 - (Oceanside) - N Coast Highway and Topeka St (8/16/16 - 2/05/17)" @@
      4 :> "4 - (San Marcos) - Valpreda Rd and Mission Rd" @@
      5 :> "5 - (San Marcos) - Campus Way and Campus View Dr" @@
      6 :> "6 - (Escondido) - Rock Springs Rd and W Mission Ave" @@
      7 :> "7 - (Escondido) - Centre City Pkwy and W Valley Pkwy" @@
      8 :> "8 - (Solana Beach) - Coast Highway and Lomas Santa Fe/Plaza St" @@
      9 :> "9 - (Chula Vista) - Broadway, Between E Street and Flower St" @@
      10 :> "10 - (San Diego - La Jolla) - N Torrey Pines Rd and La Jolla Shores Dr" @@
      11 :> "11 - (San Diego - La Jolla) - Gilman Dr between Osler Ln and La Jolla Village Dr" @@
      12 :> "12 - (San Diego - Pacific Beach) - Fanuel St and Crown Point Bike Path" @@
      13 :> "13 - (San Diego - Pacific Beach) - Ingraham St and Hornblend St" @@
      14 :> "14 - (San Diego - Downtown) - Union St and Ash St" @@
      15 :> "15 - (San Diego - Downtown) - 4th Ave and C St" @@
      16 :> "16 - (San Diego - Downtown) - 5th Ave and Broadway (8/16/16 - 02/05/17)" @@
      17 :> "17 - (San Diego - Downtown) - 10th Ave and Market St" @@
      18 :> "18 - (San Diego - North Park) - Park Blvd and Myrtle St" @@
      19 :> "19 - (San Diego - North Park) - 30th St and University Ave" @@
      20 :> "20 - (San Diego - North Park) - Oregon St and El Cajon Blvd" @@
      21 :> "21 - (San Diego - North Park) - Utah St and Meade Ave" @@
      22 :> "22 - (San Diego - College Area) - Collwood Blvd and Montezuma Rd" @@
      23 :> "23 - (San Diego - College Area) - E Campus Dr and Montezuma Rd" @@
      24 :> "24 - (El Cajon) - Orlando St and Main St" @@
      25 :> "25 - (El Cajon) - Jamacha Road and E. Washington Ave" @@ 26 :> "26 - Other" @@
      27 :> "3 - (Oceanside) - N Coast Highway and Mission Ave (2/06/17 - 2/16/17)" @@
      28 :> "16 - (San Diego - Downtown) - 5th Ave, between Elm St and Fir St (2/06/17 - 2/16/17)" @@
      NA :> "Missing")
  ]
----------------------------------------------------------------------------
(* SurveyData.day *)

MaxDayRows == 1   \* rows in the two day extracts together
MaxTrips == 2     \* num_trips ranges over null and 0..MaxTrips

\* usecols of the AT day extract (the columns the model follows)
DayAtColumns ==
  {"personid", "hhid", "travel_dow", "day_iscomplete", "survey_status", "trips_yesno",
   "notravel", "notravel_secondary", "num_trips", "toll_no", "toll_express",
   "deliver_package", "deliver_food", "deliver_work"}

\* usecols of the SDRTS day extract (the columns the model follows)
DaySdrtsColumns ==
  DayAtColumns \cup
  {"data_source", "day_hhcomplete", "proxy", "notravel_other", "loc_start",
   "loc_start_other", "loc_end", "loc_end_other"}

\* the columns read_csv reads as text
DayTextColumns == {"notravel_other", "loc_start_other", "loc_end_other"}

\* "set values for variables not in AT data-set"
DayAtBackfill ==
  [data_source |-> 1, day_hhcomplete |-> 99, notravel_other |-> NotApplicable,
   loc_start |-> 99, loc_start_other |-> NotApplicable,
   loc_end |-> 99, loc_end_other |-> NotApplicable]

\* a complete SDRTS day row; the extracts of Init vary some of its columns
DayDefaults ==
  [personid |-> 1, hhid |-> 1, travel_dow |-> 1, data_source |-> 2, day_hhcomplete |-> 1,
   day_iscomplete |-> 1, survey_status |-> 1, proxy |-> 1, trips_yesno |-> 1,
   notravel |-> NA, notravel_secondary |-> NA, notravel_other |-> NaN, num_trips |-> 1,
   loc_start |-> 1, loc_start_other |-> NaN, loc_end |-> 1, loc_end_other |-> NaN,
   toll_no |-> 0, toll_express |-> 0, deliver_package |-> 0, deliver_food |-> 0,
   deliver_work |-> 0]

NumTrips == {NA} \cup (0..MaxTrips)

\* the no-travel answers of the rows of Init: (notravel, notravel_secondary,
\* notravel_other)
DayNotravelChoices ==
  {<<NA, NA, NaN>>, <<97, NA, "stayed in">>, <<97, 97, NaN>>, <<2, 97, "stayed in">>,
   <<2, 97, NaN>>, <<2, 3, "stayed in">>}

DayVaried(yn, n, nt) ==
  [trips_yesno |-> yn, num_trips |-> n, notravel |-> nt[1], notravel_secondary |-> nt[2],
   notravel_other |-> nt[3]]

DaySdrtsRows ==
  {Override(DayDefaults, Override(DayVaried(yn, n, <<NA, NA, NaN>>), [data_source |-> ds])) :
     yn \in {1, 2, NA}, n \in NumTrips, ds \in {1, 2}}
  \cup {Override(DayDefaults, Override(DayVaried(2, n, nt), [data_source |-> ds])) :
          n \in {0, 1}, nt \in DayNotravelChoices, ds \in {1, 2}}
  \cup {Override(DayDefaults, [data_source |-> ds, loc_start |-> l, loc_end |-> l]) :
          ds \in {1, 2}, l \in {97, NA}}

DayAtRows ==
  {[f \in DayAtColumns |-> r[f]] : r \in {s \in DaySdrtsRows : s.data_source = 2}}

DayInit ==
  /\ src \in Extracts(DaySdrtsRows, DayAtRows, MaxDayRows)
  /\ df = <<>>
  /\ cats = <<>>
  /\ pc = "day_concat"
  /\ lines = <<>>
  /\ points = <<>>
  /\ wkts = <<>>
  /\ NoReads

\* at_df gets its hardcoded columns, then pd.concat([sdrts, at_df], ignore_index=True):
\* SDRTS rows first, a column one extract lacks is null in its rows
DayConcat ==
  /\ pc = "day_concat"
  /\ df' = src.sdrts \o
           MapSeq(src.at, LAMBDA r :
             Reindex(Override(r, DayAtBackfill), DaySdrtsColumns,
                     LAMBDA f : IF f \in DayTextColumns THEN NaN ELSE NA))
  /\ pc' = "day_recode"
  /\ UNCHANGED <<made, cache, built, log, src, cats, lines, points, wkts>>

\* for field in mappings: df[field] = pd.Categorical(df[field].map(...), categories=...)
DayRecode ==
  /\ pc = "day_recode"
  /\ df' = MapSeq(df, LAMBDA r : RecodeRow(DayMappings, r))
  /\ cats' = MappingCategories(DayMappings)
  /\ pc' = "day_trips_yes"
  /\ UNCHANGED <<made, cache, built, log, src, lines, points, wkts>>

\* df.loc[df.num_trips > 0, "trips_yesno"] = "Yes"
DayTripsYes ==
  Rule("day_trips_yes", "day_trips_no",
       LAMBDA r : NumGt(r.num_trips, 0), {"trips_yesno"}, "Yes")

\* a plausible slip: the count only fills in an indicator that was not reported
DayTripsNoOnlyMissing ==
  Rule("day_trips_no", "day_notravel_categories",
       LAMBDA r : NumEq(r.num_trips, 0) /\ r.trips_yesno = Missing, {"trips_yesno"}, "No")

\* df.loc[df.num_trips == 0, "trips_yesno"] = "No"
DayTripsNo ==
  Rule("day_trips_no", "day_notravel_categories",
       LAMBDA r : NumEq(r.num_trips, 0), {"trips_yesno"}, "No")

\* df["notravel"].cat.add_categories(["Missing", "Not Applicable"], inplace=True)
DayNotravelCategories ==
  /\ pc = "day_notravel_categories"
  /\ cats' = AddCategories(cats, {"notravel"}, {Missing, NotApplicable})
  /\ pc' = "day_notravel_missing"
  /\ UNCHANGED <<made, cache, built, log, src, df, lines, points, wkts>>

\* a plausible slip: the day without trips gets the label of the day with trips
DayNotravelMissingAsNotApplicable ==
  Rule("day_notravel_missing", "day_notravel_na",
       LAMBDA r : NumEq(r.num_trips, 0) /\ r.notravel = NaN, {"notravel"}, NotApplicable)

\* df.loc[(df.num_trips == 0) & (df.notravel.isnull()), "notravel"] = "Missing"
DayNotravelMissing ==
  Rule("day_notravel_missing", "day_notravel_na",
       LAMBDA r : NumEq(r.num_trips, 0) /\ r.notravel = NaN, {"notravel"}, Missing)

\* df.loc[(df.num_trips > 0) & (df.notravel.isnull()), "notravel"] = "Not Applicable"
DayNotravelNotApplicable ==
  Rule("day_notravel_na", "day_other_na",
       LAMBDA r : NumGt(r.num_trips, 0) /\ r.notravel = NaN, {"notravel"}, NotApplicable)

\* a plausible slip: only the first reason is looked at
DayOtherNotApplicablePrimaryOnly ==
  Rule("day_other_na", "day_other_missing",
       LAMBDA r : r.notravel # "Other reason", {"notravel_other"}, NotApplicable)

\* df.loc[(df.notravel != "Other reason") & (df.notravel_secondary != "Other reason"),
\*        "notravel_other"] = "Not Applicable"
DayOtherNotApplicable ==
  Rule("day_other_na", "day_other_missing",
       LAMBDA r : r.notravel # "Other reason" /\ r.notravel_secondary # "Other reason",
       {"notravel_other"}, NotApplicable)

\* df.loc[((df.notravel == "Other reason") | (df.notravel_secondary == "Other reason")) &
\*        (df.notravel_other.isnull()), "notravel_other"] = "Missing"
DayOtherMissing ==
  Rule("day_other_missing", "day_loc_categories",
       LAMBDA r : /\ r.notravel = "Other reason" \/ r.notravel_secondary = "Other reason"
                  /\ r.notravel_other = NaN,
       {"notravel_other"}, Missing)

\* a plausible slip: only the start location gets the "Missing" category
DayLocCategoriesStartOnly ==
  /\ pc = "day_loc_categories"
  /\ cats' = AddCategories(cats, {"loc_start"}, {Missing})
  /\ pc' = "day_loc_rmove"
  /\ UNCHANGED <<made, cache, built, log, src, df, lines, points, wkts>>

\* df["loc_start"].cat.add_categories(["Missing"]); the same for loc_end
DayLocCategories ==
  /\ pc = "day_loc_categories"
  /\ cats' = AddCategories(cats, {"loc_start", "loc_end"}, {Missing})
  /\ pc' = "day_loc_rmove"
  /\ UNCHANGED <<made, cache, built, log, src, df, lines, points, wkts>>

\* df.loc[df.data_source == "rMove", [loc_start, loc_start_other, loc_end, loc_end_other]]
\*   = "Not Applicable"
DayLocRmove ==
  Rule("day_loc_rmove", "day_loc_start_missing",
       LAMBDA r : r.data_source = "rMove",
       {"loc_start", "loc_start_other", "loc_end", "loc_end_other"}, NotApplicable)

\* df.loc[(df.data_source == "Online") & (df.loc_start.isnull()), "loc_start"] = "Missing"
DayLocStartMissing ==
  Rule("day_loc_start_missing", "day_loc_end_missing",
       LAMBDA r : r.data_source = "Online" /\ r.loc_start = NaN, {"loc_start"}, Missing)

\* df.loc[(df.data_source == "Online") & (df.loc_end.isnull()), "loc_end"] = "Missing"
DayLocEndMissing ==
  Rule("day_loc_end_missing", "day_loc_start_other",
       LAMBDA r : r.data_source = "Online" /\ r.loc_end = NaN, {"loc_end"}, Missing)

\* df.loc[(df.data_source == "Online") & (df.loc_start != "Other"), "loc_start_other"]
\*   = "Not Applicable"
DayLocStartOther ==
  Rule("day_loc_start_other", "day_loc_end_other",
       LAMBDA r : r.data_source = "Online" /\ r.loc_start # "Other",
       {"loc_start_other"}, NotApplicable)

\* df.loc[(df.data_source == "Online") & (df.loc_end != "Other"), "loc_end_other"]
\*   = "Not Applicable"
DayLocEndOther ==
  Rule("day_loc_end_other", "day_key",
       LAMBDA r : r.data_source = "Online" /\ r.loc_end # "Other",
       {"loc_end_other"}, NotApplicable)

\* df["day_id"] = np.arange(len(df))
DayKey ==
  /\ pc = "day_key"
  /\ df' = [i \in DOMAIN df |-> Override(df[i], [day_id |-> i - 1])]
  /\ pc' = "day_return"
  /\ UNCHANGED <<made, cache, built, log, src, cats, lines, points, wkts>>

\* df.rename(columns={...})
DayRenameColumns ==
  [personid |-> "person_id", hhid |-> "household_id", travel_dow |-> "travel_day_of_week",
   day_hhcomplete |-> "completed_household_survey",
   day_iscomplete |-> "completed_person_survey", survey_status |-> "survey_status",
   proxy |-> "proxy", trips_yesno |-> "made_trips", notravel |-> "no_trips_reason_1",
   notravel_secondary |-> "no_trips_reason_2",
   notravel_other |-> "no_trips_reason_specify_other", num_trips |-> "number_trips",
   loc_start |-> "start_location", loc_start_other |-> "start_location_other",
   loc_end |-> "end_location", loc_end_other |-> "end_location_other",
   toll_no |-> "toll_road", toll_express |-> "toll_road_express"]

\* the column list of the returned frame (the columns the model follows)
DayOutputColumns ==
  {"day_id", "person_id", "household_id", "travel_day_of_week", "data_source",
   "completed_household_survey", "completed_person_survey", "survey_status", "proxy",
   "made_trips", "no_trips_reason_1", "no_trips_reason_2",
   "no_trips_reason_specify_other", "number_trips", "start_location",
   "start_location_other", "end_location", "end_location_other", "toll_road",
   "toll_road_express", "deliver_package", "deliver_food", "deliver_work"}

\* rename the columns and return the output column list
DayReturn ==
  /\ pc = "day_return"
  /\ df' = MapSeq(df, LAMBDA r : RenameRow(r, DayRenameColumns, DayOutputColumns))
  /\ pc' = "done"
  /\ UNCHANGED <<made, cache, built, log, src, cats, lines, points, wkts>>

DayNext ==
  \/ DayConcat \/ DayRecode \/ DayTripsYes \/ DayTripsNo \/ DayNotravelCategories
  \/ DayNotravelMissing \/ DayNotravelNotApplicable \/ DayOtherNotApplicable
  \/ DayOtherMissing \/ DayLocCategories \/ DayLocRmove \/ DayLocStartMissing
  \/ DayLocEndMissing \/ DayLocStartOther \/ DayLocEndOther \/ DayKey \/ DayReturn

SpecDay == DayInit /\ [][DayNext]_vars

----------------------------------------------------------------------------
(* SurveyData.persons *)

MaxPersonRows == 1   \* rows in the two person extracts together

\* usecols of the AT extract
PersonsAtColumns ==
  {"personid", "hhid", "pernum", "traveldate_start", "rmove_participant", "relationship",
   "gender", "age", "employment", "jobs_count", "student", "education", "license", "military",
   "ethnicity_amindian_alaska", "ethnicity_asian", "ethnicity_black", "ethnicity_hispanic",
   "ethnicity_hawaiian_pacific", "ethnicity_white", "ethnicity_other", "ethnicity_prefernot",
   "disability", "height", "weight_lbs", "physical_activity", "transit_freq", "transitpass",
   "schooltype", "school_freq", "other_school", "school_mode", "daycare_early", "daycare_late",
   "job_type", "occupation", "industry", "hours_work", "commute_freq", "commute_mode",
   "work_flex", "work_park_pay", "work_park_cost", "work_park_cost_dk", "work_park_ease",
   "telecommute_freq", "commute_subsidy_none", "commute_subsidy_parking",
   "commute_subsidy_transit", "commute_subsidy_vanpool", "commute_subsidy_cash",
   "commute_subsidy_other", "commute_subsidy_specify", "secondhome", "secondhome_address",
   "secondhome_lat", "secondhome_lng", "mainschool_address", "mainschool_lat",
   "mainschool_lng", "secondschool_address", "secondschool_lat", "secondschool_lng",
   "work_address", "work_lat", "work_lng", "secondwork_address", "secondwork_lat",
   "secondwork_lng", "numdays_complete", "day1_complete", "day2_complete", "day3_complete",
   "day4_complete", "day5_complete", "day6_complete", "day7_complete"}

\* usecols of the SDRTS extract
PersonsSdrtsColumns ==
  {"personid", "hhid", "pernum", "traveldate_start", "rmove_participant", "relationship",
   "gender", "age", "employment", "jobs_count", "student", "education", "license", "military",
   "ethnicity_amindian_alaska", "ethnicity_asian", "ethnicity_black", "ethnicity_hispanic",
   "ethnicity_hawaiian_pacific", "ethnicity_white", "ethnicity_other", "ethnicity_prefernot",
   "disability", "height", "weight_lbs", "physical_activity", "transit_freq", "transitpass",
   "schooltype", "school_freq", "other_school", "school_mode", "daycare_early", "daycare_late",
   "job_type", "occupation", "industry", "hours_work", "commute_freq", "commute_mode",
   "work_flex", "work_park_pay", "work_park_cost", "work_park_cost_dk", "work_park_ease",
   "telecommute_freq", "commute_subsidy_none", "commute_subsidy_parking",
   "commute_subsidy_transit", "commute_subsidy_vanpool", "commute_subsidy_cash",
   "commute_subsidy_other", "commute_subsidy_specify", "secondhome", "secondhome_address",
   "secondhome_lat", "secondhome_lng", "mainschool_address", "mainschool_lat",
   "mainschool_lng", "secondschool_address", "secondschool_lat", "secondschool_lng",
   "work_address", "work_lat", "work_lng", "secondwork_address", "secondwork_lat",
   "secondwork_lng", "smartphone_type", "smartphone_age", "child_smartphone",
   "callcenter_diary", "mobile_diary", "activated_rmove", "numdays_complete", "day1_complete",
   "day2_complete", "day3_complete", "day4_complete", "day5_complete", "day6_complete",
   "day7_complete"}

\* df.rename(columns={...})
PersonsRenameColumns ==
  [personid |-> "person_id", hhid |-> "household_id", pernum |-> "person_number",
   traveldate_start |-> "travel_date_start", age |-> "age_category",
   employment |-> "employment_status", jobs_count |-> "number_of_jobs",
   student |-> "adult_student_status", education |-> "educational_attainment",
   license |-> "drivers_license", military |-> "military_status",
   ethnicity_amindian_alaska |-> "ethnicity_americanindian_alaskanative",
   weight_lbs |-> "weight", transit_freq |-> "transit_frequency",
   transitpass |-> "transit_pass", schooltype |-> "school_type",
   school_freq |-> "school_frequency", daycare_early |-> "daycare_open",
   daycare_late |-> "daycare_close", job_type |-> "work_location_type",
   hours_work |-> "hours_worked", commute_freq |-> "commute_frequency",
   work_flex |-> "work_arrival_frequency", work_park_pay |-> "work_parking_payment",
   work_park_cost |-> "work_parking_cost", work_park_cost_dk |-> "work_parking_cost_dk",
   work_park_ease |-> "work_parking_ease", telecommute_freq |-> "telecommute_frequency",
   secondhome |-> "has_second_home", secondhome_address |-> "second_home_address",
   secondhome_lat |-> "second_home_latitude", secondhome_lng |-> "second_home_longitude",
   mainschool_address |-> "school_address", mainschool_lat |-> "school_latitude",
   mainschool_lng |-> "school_longitude", secondschool_address |-> "second_school_address",
   secondschool_lat |-> "second_school_latitude",
   secondschool_lng |-> "second_school_longitude", work_lat |-> "work_latitude",
   work_lng |-> "work_longitude", secondwork_address |-> "second_work_address",
   secondwork_lat |-> "second_work_latitude", secondwork_lng |-> "second_work_longitude",
   child_smartphone |-> "smartphone_child", callcenter_diary |-> "diary_callcenter",
   mobile_diary |-> "diary_mobile", activated_rmove |-> "rmove_activated",
   numdays_complete |-> "completed_days", day1_complete |-> "completed_day1",
   day2_complete |-> "completed_day2", day3_complete |-> "completed_day3",
   day4_complete |-> "completed_day4", day5_complete |-> "completed_day5",
   day6_complete |-> "completed_day6", day7_complete |-> "completed_day7"]

\* the column list of the returned frame
PersonsOutputColumns ==
  {"person_id", "household_id", "person_number", "travel_date_start", "rmove_participant",
   "relationship", "gender", "age_category", "employment_status", "number_of_jobs",
   "adult_student_status", "educational_attainment", "drivers_license", "military_status",
   "ethnicity_americanindian_alaskanative", "ethnicity_asian", "ethnicity_black",
   "ethnicity_hispanic", "ethnicity_hawaiian_pacific", "ethnicity_white", "ethnicity_other",
   "disability", "height", "weight", "physical_activity", "transit_frequency", "transit_pass",
   "school_type", "school_frequency", "other_school", "school_mode", "daycare_open",
   "daycare_close", "work_location_type", "occupation", "industry", "hours_worked",
   "commute_frequency", "commute_mode", "work_arrival_frequency", "work_parking_payment",
   "work_parking_cost", "work_parking_cost_dk", "work_parking_ease", "telecommute_frequency",
   "commute_subsidy_none", "commute_subsidy_parking", "commute_subsidy_transit",
   "commute_subsidy_vanpool", "commute_subsidy_cash", "commute_subsidy_other",
   "commute_subsidy_specify", "has_second_home", "second_home_address", "second_home_latitude",
   "second_home_longitude", "second_home_shape", "school_address", "school_latitude",
   "school_longitude", "school_shape", "second_school_address", "second_school_latitude",
   "second_school_longitude", "second_school_shape", "work_address", "work_latitude",
   "work_longitude", "work_shape", "second_work_address", "second_work_latitude",
   "second_work_longitude", "second_work_shape", "smartphone_type", "smartphone_age",
   "smartphone_child", "diary_callcenter", "diary_mobile", "rmove_activated", "completed_days",
   "completed_day1", "completed_day2", "completed_day3", "completed_day4", "completed_day5",
   "completed_day6", "completed_day7"}

\* the columns read_csv reads as text (no integer dtype, not a number)
PersonsTextColumns ==
  {"traveldate_start", "commute_subsidy_specify", "secondhome_address",
   "mainschool_address", "secondschool_address", "work_address", "secondwork_address",
   "activated_rmove"}

\* the null of a column: NaN in a text column, NA in a numeric one
PersonsNull(f) == IF f \in PersonsTextColumns THEN NaN ELSE NA

\* a plausible slip: one hardcoded value is a code its mapping does not declare
PersonsAtBackfillUndeclared ==
  [smartphone_type |-> 98, smartphone_age |-> 99, child_smartphone |-> 99,
   callcenter_diary |-> 99, mobile_diary |-> 99]

\* "set values for variables not in AT data-set"
PersonsAtBackfill ==
  [smartphone_type |-> 99, smartphone_age |-> 99, child_smartphone |-> 99,
   callcenter_diary |-> 99, mobile_diary |-> 99]

\* a complete SDRTS person row: an adult who is not in school, with a work
\* address and a geocoded work place, every other answer code 1; the extracts
\* of Init vary some of its columns
PersonsDefaults ==
  LET codes ==
        [age |-> 5, occupation |-> 11, schooltype |-> NA, school_freq |-> NA,
         other_school |-> NA, school_mode |-> NA, daycare_early |-> NA, daycare_late |-> NA,
         secondhome |-> 0,
         secondhome_address |-> NaN, secondhome_lat |-> NA, secondhome_lng |-> NA,
         mainschool_address |-> NaN, mainschool_lat |-> NA, mainschool_lng |-> NA,
         secondschool_address |-> NaN, secondschool_lat |-> NA, secondschool_lng |-> NA,
         secondwork_address |-> NaN, secondwork_lat |-> NA, secondwork_lng |-> NA,
         work_lat |-> 0, work_lng |-> 1]
  IN [f \in PersonsSdrtsColumns |->
        IF f \in DOMAIN codes THEN codes[f]
        ELSE IF f \in PersonsTextColumns THEN "text" ELSE 1]

\* rows by age and employment: every age code up to 16-17 years, an adult
\* and null, with employment full-time, not employed and null
PersonsAgeRows ==
  {Override(PersonsDefaults, [age |-> a, employment |-> e]) :
     a \in {1, 2, 3, 5, NA}, e \in {1, 4, NA}}

\* the SDRTS rows of Init: the rows by age and employment; a child and an adult
\* working at home only; adults with an employment code the mapping does not
\* list, on active duty outside the region, or driving for a living; adults by
\* commute frequency and commute mode; children and adults, employed or not,
\* without a work address; and adults in or out of school with or without a
\* school address
PersonsSdrtsRows ==
  PersonsAgeRows
  \cup {Override(PersonsDefaults, [age |-> a, job_type |-> 3]) : a \in {2, 5}}
  \cup {Override(PersonsDefaults, [employment |-> 9])}
  \cup {Override(PersonsDefaults, [employment |-> e, military |-> 3]) : e \in {1, 4}}
  \cup {Override(PersonsDefaults, [job_type |-> 4])}
  \cup {Override(PersonsDefaults, [commute_freq |-> c, commute_mode |-> m]) :
          c \in {1, 9, NA}, m \in {1, 5, NA}}
  \cup {Override(PersonsDefaults, [age |-> a, employment |-> e, work_address |-> NaN]) :
          a \in {2, 5}, e \in {1, 4}}
  \cup {Override(PersonsDefaults, [schooltype |-> t, mainschool_address |-> x]) :
          t \in {4, NA}, x \in {"text", NaN}}

\* the AT rows of Init: the AT columns of the rows by age and employment
PersonsAtRows ==
  {[f \in PersonsAtColumns |-> r[f]] : r \in PersonsAgeRows}

PersonsInit ==
  /\ src \in Extracts(PersonsSdrtsRows, PersonsAtRows, MaxPersonRows)
  /\ df = <<>>
  /\ cats = <<>>
  /\ pc = "persons_concat"
  /\ lines = <<>>
  /\ points = <<>>
  /\ wkts = <<>>
  /\ NoReads

\* the SDRTS rows of PersonsCodesInit: a 5-15 year old and an adult, one mapped
\* field of the row holding any code its mapping declares or null
PersonsCodesRows ==
  UNION {{Override(PersonsDefaults, [g \in {"age", f} |-> IF g = f THEN c ELSE a]) :
            a \in {2, 5}, c \in DOMAIN PersonsMappings[f]} : f \in DOMAIN PersonsMappings}

\* the extracts hold one row, in the SDRTS or in the AT extract
PersonsCodesInit ==
  /\ \E r \in PersonsCodesRows :
       \/ src = [sdrts |-> <<r>>, at |-> <<>>]
       \/ src = [sdrts |-> <<>>, at |-> <<[f \in PersonsAtColumns |-> r[f]]>>]
  /\ df = <<>>
  /\ cats = <<>>
  /\ pc = "persons_concat"
  /\ lines = <<>>
  /\ points = <<>>
  /\ wkts = <<>>
  /\ NoReads

\* at_df gets its hardcoded columns, then pd.concat([sdrts, at_df], ignore_index=True):
\* SDRTS rows first, a column one extract lacks is null in its rows
PersonsConcat ==
  /\ pc = "persons_concat"
  /\ df' = src.sdrts \o
           MapSeq(src.at, LAMBDA r :
             Reindex(Override(r, PersonsAtBackfill), PersonsSdrtsColumns, PersonsNull))
  /\ pc' = "persons_recode"
  /\ UNCHANGED <<made, cache, built, log, src, cats, lines, points, wkts>>

\* the recode loop: every mapped field becomes a Categorical of its labels, and
\* "Not Applicable" is added to the categories of a field that lacks it
PersonsRecode ==
  /\ pc = "persons_recode"
  /\ df' = MapSeq(df, LAMBDA r : RecodeRow(PersonsMappings, r))
  /\ cats' = AddCategories(MappingCategories(PersonsMappings), DOMAIN PersonsMappings,
                           {NotApplicable})
  /\ pc' = "persons_statement_1"
  /\ UNCHANGED <<made, cache, built, log, src, lines, points, wkts>>

\* a plausible slip: the age list names only the youngest category
PersonsAgeUnder5Only ==
  [kind |-> "loc",
   when |-> <<<<"age", "in", {"Under 5 years old"}>>>>,
   cols |-> {"employment", "jobs_count", "license", "military", "ethnicity_amindian_alaska",
            "ethnicity_asian", "ethnicity_black", "ethnicity_hispanic",
            "ethnicity_hawaiian_pacific", "ethnicity_white", "ethnicity_other",
            "ethnicity_prefernot", "disability", "transit_freq", "transitpass", "job_type",
            "occupation", "industry", "hours_work", "commute_freq", "commute_mode", "work_flex",
            "work_park_pay", "work_park_cost_dk", "work_park_ease", "telecommute_freq",
            "commute_subsidy_none", "commute_subsidy_parking", "commute_subsidy_transit",
            "commute_subsidy_vanpool", "commute_subsidy_cash", "commute_subsidy_other",
            "commute_subsidy_specify", "work_address", "secondwork_address", "smartphone_type",
            "smartphone_age"},
   value |-> NotApplicable]

\* a plausible slip: the work address is left out of the column list
PersonsAgeUnder16NoAddress ==
  [kind |-> "loc",
   when |-> <<<<"age", "in", {"Under 5 years old", "5-15 years"}>>>>,
   cols |-> {"employment", "jobs_count", "license", "military", "ethnicity_amindian_alaska",
            "ethnicity_asian", "ethnicity_black", "ethnicity_hispanic",
            "ethnicity_hawaiian_pacific", "ethnicity_white", "ethnicity_other",
            "ethnicity_prefernot", "disability", "transit_freq", "transitpass", "job_type",
            "occupation", "industry", "hours_work", "commute_freq", "commute_mode", "work_flex",
            "work_park_pay", "work_park_cost_dk", "work_park_ease", "telecommute_freq",
            "commute_subsidy_none", "commute_subsidy_parking", "commute_subsidy_transit",
            "commute_subsidy_vanpool", "commute_subsidy_cash", "commute_subsidy_other",
            "commute_subsidy_specify", "secondwork_address", "smartphone_type",
            "smartphone_age"},
   value |-> NotApplicable]

\* df.loc[df.age.isin(["Under 5 years old", "5-15 years"]), ["employment", "jobs_count",
\* "license", "military", "ethnicity_amindian_alaska", "ethnicit...
PersonsAgeUnder16 ==
  [kind |-> "loc",
   when |-> <<<<"age", "in", {"Under 5 years old", "5-15 years"}>>>>,
   cols |-> {"employment", "jobs_count", "license", "military", "ethnicity_amindian_alaska",
            "ethnicity_asian", "ethnicity_black", "ethnicity_hispanic",
            "ethnicity_hawaiian_pacific", "ethnicity_white", "ethnicity_other",
            "ethnicity_prefernot", "disability", "transit_freq", "transitpass", "job_type",
            "occupation", "industry", "hours_work", "commute_freq", "commute_mode", "work_flex",
            "work_park_pay", "work_park_cost_dk", "work_park_ease", "telecommute_freq",
            "commute_subsidy_none", "commute_subsidy_parking", "commute_subsidy_transit",
            "commute_subsidy_vanpool", "commute_subsidy_cash", "commute_subsidy_other",
            "commute_subsidy_specify", "work_address", "secondwork_address", "smartphone_type",
            "smartphone_age"},
   value |-> NotApplicable]

\* a plausible slip: the list names only the active duty within the region
PersonsActiveDutyWithin ==
  [kind |-> "loc",
   when |-> <<<<"military", "in", {"Active duty within the San Diego region"}>>>>,
   cols |-> {"job_type", "occupation", "industry", "hours_work", "commute_freq", "commute_mode",
            "work_flex", "work_park_pay", "work_park_cost_dk", "work_park_ease",
            "telecommute_freq", "commute_subsidy_none", "commute_subsidy_parking",
            "commute_subsidy_transit", "commute_subsidy_vanpool", "commute_subsidy_cash",
            "commute_subsidy_other", "commute_subsidy_specify"},
   value |-> NotApplicable]

\* df.loc[df.military.isin(["Active duty within the San Diego region", "Active duty outside of
\* the San Diego region"]), ["job_type", "occupation", "in...
PersonsActiveDuty ==
  [kind |-> "loc",
   when |-> <<<<"military", "in", {"Active duty within the San Diego region",
                                 "Active duty outside of the San Diego region"}>>>>,
   cols |-> {"job_type", "occupation", "industry", "hours_work", "commute_freq", "commute_mode",
            "work_flex", "work_park_pay", "work_park_cost_dk", "work_park_ease",
            "telecommute_freq", "commute_subsidy_none", "commute_subsidy_parking",
            "commute_subsidy_transit", "commute_subsidy_vanpool", "commute_subsidy_cash",
            "commute_subsidy_other", "commute_subsidy_specify"},
   value |-> NotApplicable]

\* a plausible slip: the list names only the work at home label
PersonsNoCommuteHomeOnly ==
  [kind |-> "loc",
   when |-> <<<<"job_type", "in", {"Work at home only (only telework or self-employed)"}>>>>,
   cols |-> {"commute_freq"},
   value |-> NotApplicable]

\* df.loc[df.job_type.isin(["Work at home only (only telework or self-employed)", "Drive/Travel
\* for a living (e.g., bus/truck driver, salesman)"]), ["...
PersonsNoCommute ==
  [kind |-> "loc",
   when |-> <<<<"job_type", "in", {"Work at home only (only telework or self-employed)",
                                 "Drive/Travel for a living (e.g., bus/truck driver, salesman)"}>>>>,
   cols |-> {"commute_freq"},
   value |-> NotApplicable]

\* a plausible slip: the list names only the label Never
PersonsNeverCommutesOnly ==
  [kind |-> "loc",
   when |-> <<<<"commute_freq", "in", {"Never"}>>>>,
   cols |-> {"commute_mode", "work_flex", "work_park_pay", "work_park_cost_dk", "work_park_ease",
            "commute_subsidy_none", "commute_subsidy_parking", "commute_subsidy_transit",
            "commute_subsidy_vanpool", "commute_subsidy_cash", "commute_subsidy_other",
            "commute_subsidy_specify"},
   value |-> NotApplicable]

\* df.loc[df.commute_freq.isin(["Never", "Not Applicable"]), ["commute_mode", "work_flex",
\* "work_park_pay", "work_park_cost_dk", "work_park_ease", "co...
PersonsNeverCommutes ==
  [kind |-> "loc",
   when |-> <<<<"commute_freq", "in", {"Never", "Not Applicable"}>>>>,
   cols |-> {"commute_mode", "work_flex", "work_park_pay", "work_park_cost_dk", "work_park_ease",
            "commute_subsidy_none", "commute_subsidy_parking", "commute_subsidy_transit",
            "commute_subsidy_vanpool", "commute_subsidy_cash", "commute_subsidy_other",
            "commute_subsidy_specify"},
   value |-> NotApplicable]

\* the manual recode statements of persons, in source order
PersonsStatements ==
  <<
    \* df.loc[df.age.isin(["Under 5 years old", "5-15 years"]), ["employment", "jobs_count",
    \* "license", "military", "ethnicity_amindian_alaska", "ethnicit...
    PersonsAgeUnder16,
    \* df.loc[df.age != "16-17 years", "child_smartphone"] = "Not Applicable"
    [kind |-> "loc",
     when |-> <<<<"age", "notin", {"16-17 years"}>>>>,
     cols |-> {"child_smartphone"},
     value |-> NotApplicable],
    \* df.loc[df.age.isin(["Under 5 years old", "5-15 years", "16-17 years"]), ["student",
    \* "education", "physical_activity"]] = "Not Applicable"
    [kind |-> "loc",
     when |-> <<<<"age", "in", {"Under 5 years old", "5-15 years", "16-17 years"}>>>>,
     cols |-> {"student", "education", "physical_activity"},
     value |-> NotApplicable],
    \* df.loc[df.employment == "Not currently employed", ["jobs_count", "military", "job_type",
    \* "occupation", "industry", "hours_work", "commute_freq", "c...
    [kind |-> "loc",
     when |-> <<<<"employment", "in", {"Not currently employed"}>>>>,
     cols |-> {"jobs_count", "military", "job_type", "occupation", "industry", "hours_work",
              "commute_freq", "commute_mode", "work_flex", "work_park_pay", "work_park_cost_dk",
              "work_park_ease", "telecommute_freq", "commute_subsidy_none",
              "commute_subsidy_parking", "commute_subsidy_transit", "commute_subsidy_vanpool",
              "commute_subsidy_cash", "commute_subsidy_other", "commute_subsidy_specify",
              "work_address", "secondwork_address"},
     value |-> NotApplicable],
    \* df["secondwork_address"] = df["secondwork_address"].fillna("Not Applicable")
    [kind |-> "fillna",
     when |-> <<>>,
     cols |-> {"secondwork_address"},
     value |-> NotApplicable],
    \* df.loc[df.ethnicity_prefernot == "Yes", ["ethnicity_amindian_alaska", "ethnicity_asian",
    \* "ethnicity_black", "ethnicity_hispanic", "ethnicity_hawaii...
    [kind |-> "loc",
     when |-> <<<<"ethnicity_prefernot", "in", {"Yes"}>>>>,
     cols |-> {"ethnicity_amindian_alaska", "ethnicity_asian", "ethnicity_black",
              "ethnicity_hispanic", "ethnicity_hawaiian_pacific", "ethnicity_white",
              "ethnicity_other"},
     value |-> NotApplicable],
    \* df.loc[df.transit_freq.isin(["1-3 days per month", "Less than monthly", "Never"]),
    \* ["transitpass"]] = "Not Applicable"
    [kind |-> "loc",
     when |-> <<<<"transit_freq", "in", {"1-3 days per month", "Less than monthly", "Never"}>>>>,
     cols |-> {"transitpass"},
     value |-> NotApplicable],
    \* df.loc[df.schooltype.isin(["Missing", "Not Applicable"]), ["mainschool_address",
    \* "secondschool_address"]] = "Not Applicable"
    [kind |-> "loc",
     when |-> <<<<"schooltype", "in", {"Missing", "Not Applicable"}>>>>,
     cols |-> {"mainschool_address", "secondschool_address"},
     value |-> NotApplicable],
    \* df["secondschool_address"] = df["secondschool_address"].fillna("Not Applicable")
    [kind |-> "fillna",
     when |-> <<>>,
     cols |-> {"secondschool_address"},
     value |-> NotApplicable],
    \* df.loc[df.schooltype.isin(["Cared for at home", "Kindergarten-Grade 5 (home school)",
    \* "Grade 6-Grade 8 (home school)", "Grade 9-Grade 12 (home scho...
    [kind |-> "loc",
     when |-> <<<<"schooltype", "in", {"Cared for at home", "Kindergarten-Grade 5 (home school)",
                                     "Grade 6-Grade 8 (home school)",
                                     "Grade 9-Grade 12 (home school)", "Missing", "Not Applicable"}>>>>,
     cols |-> {"school_freq", "other_school", "school_mode"},
     value |-> NotApplicable],
    \* df.loc[df.school_freq == "Never, only takes online classes", "school_mode"] = "Not
    \* Applicable"
    [kind |-> "loc",
     when |-> <<<<"school_freq", "in", {"Never, only takes online classes"}>>>>,
     cols |-> {"school_mode"},
     value |-> NotApplicable],
    \* df.loc[df.schooltype != "Daycare outside home", ["daycare_early", "daycare_late"]] =
    \* "Not Applicable"
    [kind |-> "loc",
     when |-> <<<<"schooltype", "notin", {"Daycare outside home"}>>>>,
     cols |-> {"daycare_early", "daycare_late"},
     value |-> NotApplicable],
    \* df.loc[df.military.isin(["Active duty within the San Diego region", "Active duty outside
    \* of the San Diego region"]), ["job_type", "occupation", "in...
    PersonsActiveDuty,
    \* df.loc[df.job_type == "Work at home only (only telework or self-employed)",
    \* ["telecommute_freq"]] = "Not Applicable"
    [kind |-> "loc",
     when |-> <<<<"job_type", "in", {"Work at home only (only telework or self-employed)"}>>>>,
     cols |-> {"telecommute_freq"},
     value |-> NotApplicable],
    \* df.loc[df.job_type.isin(["Work at home only (only telework or self-employed)",
    \* "Drive/Travel for a living (e.g., bus/truck driver, salesman)"]), ["...
    PersonsNoCommute,
    \* df.loc[df.commute_freq.isin(["Never", "Not Applicable"]), ["commute_mode", "work_flex",
    \* "work_park_pay", "work_park_cost_dk", "work_park_ease", "co...
    PersonsNeverCommutes,
    \* df.loc[df.commute_subsidy_other.isin(["No", "Not Applicable"]),
    \* "commute_subsidy_specify"] = "Not Applicable"
    [kind |-> "loc",
     when |-> <<<<"commute_subsidy_other", "in", {"No", "Not Applicable"}>>>>,
     cols |-> {"commute_subsidy_specify"},
     value |-> NotApplicable],
    \* df.loc[~df.commute_mode.isin(["Drive alone", "Carpool with only family/household
    \* member(s)", "Carpool with at least one person not in household", "...
    [kind |-> "loc",
     when |-> <<<<"commute_mode", "notin", {"Drive alone",
                                          "Carpool with only family/household member(s)",
                                          "Carpool with at least one person not in household",
                                          "Motorcycle/moped/scooter"}>>>>,
     cols |-> {"work_park_pay", "work_park_cost_dk", "work_park_ease"},
     value |-> NotApplicable],
    \* df.loc[df.secondhome != "Yes", "secondhome_address"] = "Not Applicable"
    [kind |-> "loc",
     when |-> <<<<"secondhome", "notin", {"Yes"}>>>>,
     cols |-> {"secondhome_address"},
     value |-> NotApplicable],
    \* df.loc[df.rmove_participant == "Yes", ["callcenter_diary", "mobile_diary"]] = "Not
    \* Applicable"
    [kind |-> "loc",
     when |-> <<<<"rmove_participant", "in", {"Yes"}>>>>,
     cols |-> {"callcenter_diary", "mobile_diary"},
     value |-> NotApplicable],
    \* df.loc[df.smartphone_type.isin(["Yes, has a Windows Phone", "Yes, has other type of
    \* smartphone", "Yes, has a Blackberry", "No, does not have a smar...
    [kind |-> "loc",
     when |-> <<<<"smartphone_type", "in", {"Yes, has a Windows Phone",
                                          "Yes, has other type of smartphone",
                                          "Yes, has a Blackberry",
                                          "No, does not have a smartphone", "Not Applicable"}>>>>,
     cols |-> {"smartphone_age"},
     value |-> NotApplicable],
    \* df["mainschool_address"] = df["mainschool_address"].fillna("Missing")
    [kind |-> "fillna",
     when |-> <<>>,
     cols |-> {"mainschool_address"},
     value |-> Missing],
    \* df["work_address"] = df["work_address"].fillna("Missing")
    [kind |-> "fillna",
     when |-> <<>>,
     cols |-> {"work_address"},
     value |-> Missing]
  >>

\* one manual recode statement
PersonsManualRecode ==
  Statement("persons_statement_", PersonsStatements, PersonsNull, "persons_shape_1")

\* the df[shape] = self.point_wkt(zip(df[lng], df[lat]), "EPSG:2230") statements
PersonsShapes ==
  <<
     <<"second_home_shape", "secondhome_lng", "secondhome_lat">>,
     <<"school_shape", "mainschool_lng", "mainschool_lat">>,
     <<"second_school_shape", "secondschool_lng", "secondschool_lat">>,
     <<"work_shape", "work_lng", "work_lat">>,
     <<"second_work_shape", "secondwork_lng", "secondwork_lat">>
  >>

\* one shape statement
PersonsShape ==
  ShapeStatement("persons_shape_", PersonsShapes, "persons_return")

\* df.rename(columns={...}) and return df[[...]]
PersonsReturn ==
  /\ pc = "persons_return"
  /\ df' = MapSeq(df, LAMBDA r : RenameRow(r, PersonsRenameColumns, PersonsOutputColumns))
  /\ pc' = "done"
  /\ UNCHANGED <<made, cache, built, log, src, cats, lines, points, wkts>>

PersonsNext ==
  \/ PersonsConcat
  \/ PersonsRecode
  \/ PersonsManualRecode
  \/ PersonsShape
  \/ PersonsReturn

SpecPersons == PersonsInit /\ [][PersonsNext]_vars

SpecPersonsCodes == PersonsCodesInit /\ [][PersonsNext]_vars

----------------------------------------------------------------------------
(* SurveyData.trips *)

MaxTripRows == 1    \* rows in the two trip extracts together
MaxWeekdays == 2    \* h_complete_weekdays ranges over null and 0..MaxWeekdays

\* usecols of the AT extract
TripsAtColumns ==
  {"tripid", "tripid_linked", "personid", "hhid", "traveldate", "daynum", "travel_dow",
   "svy_complete", "completed_at", "revised_at", "revised_count", "error", "flag_teleport",
   "copied_trip", "analyst_merged", "analyst_split", "user_merged", "user_split", "added_trip",
   "unlinked_transit_trip", "origin_lat", "origin_lng", "destination_lat", "destination_lng",
   "o_purpose", "o_purpose_other", "o_purpose_inferred", "d_purpose", "d_purpose_other",
   "d_purpose_inferred", "departure_time", "arrival_time", "travelers_total", "travelers_hh",
   "travelers_nonhh", "mode1", "google_mode", "driver", "parklocation", "parktype", "parkcost",
   "park_cost_dk", "parkegress_time", "taxitype", "taxicost", "taxi_cost_dk", "airtype",
   "airfarecost", "airfare_cost_dk", "bustype", "buscost", "bus_cost_dk", "railtype",
   "railcost", "rail_cost_dk", "ferrytype", "ferrycost", "ferry_cost_dk", "trip_path_distance",
   "trip_duration", "speed_mph"}

\* usecols of the SDRTS extract
TripsSdrtsColumns ==
  {"tripid", "tripid_linked", "location_tripid", "personid", "hhid", "traveldate", "daynum",
   "travel_dow", "data_source", "svy_complete", "completed_at", "day_hhcomplete",
   "pday_complete", "h_complete_weekdays", "revised_at", "revised_count", "error",
   "flag_teleport", "copied_trip", "analyst_merged", "analyst_split", "user_merged",
   "user_split", "added_trip", "nonproxy_derived_trip", "proxy_added_trip",
   "unlinked_transit_trip", "origin_name", "origin_address", "origin_lat", "origin_lng",
   "destination_name", "destination_address", "destination_lat", "destination_lng",
   "o_purpose", "o_purpose_other", "o_purpose_inferred", "d_purpose", "d_purpose_other",
   "d_purpose_inferred", "departure_time", "arrival_time", "travelers_total", "travelers_hh",
   "travelers_nonhh", "mode1", "mode2", "mode3", "mode4", "transit_access", "transit_egress",
   "google_mode", "driver", "toll_no", "toll_express", "parklocation", "parktype", "parkcost",
   "park_cost_dk", "parkegress_time", "taxitype", "taxicost", "taxi_cost_dk", "airtype",
   "airfarecost", "airfare_cost_dk", "bustype", "buscost", "bus_cost_dk", "railtype",
   "railcost", "rail_cost_dk", "ferrytype", "ferrycost", "ferry_cost_dk", "parkride_lot",
   "parkride_city", "trip_path_distance", "trip_duration", "trip_duration_reported",
   "speed_mph", "h_multiday_factor", "multiday_weight_456x"}

\* df.rename(columns={...})
TripsRenameColumns ==
  [tripid |-> "trip_id", tripid_linked |-> "trip_id_linked",
   location_tripid |-> "trip_id_location", personid |-> "person_id", hhid |-> "household_id",
   traveldate |-> "travel_date", daynum |-> "travel_day_number",
   travel_dow |-> "travel_day_of_week", svy_complete |-> "completed_trip_survey",
   completed_at |-> "completed_date", day_hhcomplete |-> "completed_household_survey",
   pday_complete |-> "completed_person_survey",
   h_complete_weekdays |-> "number_household_survey_weekdays",
   analyst_merged |-> "analyst_merged_trip", analyst_split |-> "analyst_split_trip",
   user_merged |-> "user_merged_trip", user_split |-> "user_split_trip",
   origin_lat |-> "origin_latitude", origin_lng |-> "origin_longitude",
   destination_lat |-> "destination_latitude", destination_lng |-> "destination_longitude",
   o_purpose |-> "origin_purpose", o_purpose_other |-> "origin_purpose_other_specify",
   o_purpose_inferred |-> "origin_purpose_inferred", d_purpose |-> "destination_purpose",
   d_purpose_other |-> "destination_purpose_other_specify",
   d_purpose_inferred |-> "destination_purpose_inferred", travelers_total |-> "travelers",
   travelers_hh |-> "travelers_household", travelers_nonhh |-> "travelers_non_household",
   mode1 |-> "mode_1", mode2 |-> "mode_2", mode3 |-> "mode_3", mode4 |-> "mode_4",
   transit_access |-> "mode_transit_access", transit_egress |-> "mode_transit_egress",
   toll_no |-> "toll_road", toll_express |-> "toll_road_express",
   parklocation |-> "parking_location", parktype |-> "parking_pay_type",
   parkcost |-> "parking_cost", park_cost_dk |-> "parking_cost_dk",
   parkegress_time |-> "parking_egress_duration", taxitype |-> "taxi_pay_type",
   taxicost |-> "taxi_cost", airtype |-> "airplane_pay_type", airfarecost |-> "airplane_cost",
   airfare_cost_dk |-> "airplane_cost_dk", bustype |-> "bus_pay_type", buscost |-> "bus_cost",
   railtype |-> "rail_pay_type", railcost |-> "rail_cost", ferrytype |-> "ferry_pay_type",
   ferrycost |-> "ferry_cost", trip_path_distance |-> "distance", trip_duration |-> "duration",
   trip_duration_reported |-> "duration_reported", speed_mph |-> "speed",
   h_multiday_factor |-> "weight_household_multiday_factor",
   multiday_weight_456x |-> "weight_person_multiday_456x"]

\* the column list of the returned frame
TripsOutputColumns ==
  {"trip_id", "trip_id_linked", "trip_id_location", "person_id", "household_id", "travel_date",
   "travel_day_number", "travel_day_of_week", "data_source", "completed_trip_survey",
   "completed_date", "completed_household_survey", "completed_person_survey",
   "number_household_survey_weekdays", "revised_at", "revised_count", "error", "flag_teleport",
   "copied_trip", "analyst_merged_trip", "analyst_split_trip", "user_merged_trip",
   "user_split_trip", "added_trip", "nonproxy_derived_trip", "proxy_added_trip",
   "unlinked_transit_trip", "origin_name", "origin_address", "origin_latitude",
   "origin_longitude", "origin_shape", "destination_name", "destination_address",
   "destination_latitude", "destination_longitude", "destination_shape", "origin_purpose",
   "origin_purpose_other_specify", "origin_purpose_inferred", "destination_purpose",
   "destination_purpose_other_specify", "destination_purpose_inferred", "departure_time",
   "arrival_time", "travelers", "travelers_household", "travelers_non_household", "mode_1",
   "mode_2", "mode_3", "mode_4", "mode_transit_access", "mode_transit_egress", "google_mode",
   "driver", "toll_road", "toll_road_express", "parking_location", "parking_pay_type",
   "parking_cost", "parking_cost_dk", "parking_egress_duration", "taxi_pay_type", "taxi_cost",
   "taxi_cost_dk", "airplane_pay_type", "airplane_cost", "airplane_cost_dk", "bus_pay_type",
   "bus_cost", "bus_cost_dk", "rail_pay_type", "rail_cost", "rail_cost_dk", "ferry_pay_type",
   "ferry_cost", "ferry_cost_dk", "parkride_lot", "parkride_city", "distance", "duration",
   "duration_reported", "speed", "weight_trip", "weight_person_trip",
   "weight_household_multiday_factor", "weight_person_multiday_456x"}

\* the columns read_csv reads as text (no integer dtype, not a number)
TripsTextColumns ==
  {"traveldate", "completed_at", "revised_at", "origin_name", "origin_address",
   "destination_name", "destination_address", "o_purpose_other", "d_purpose_other",
   "departure_time", "arrival_time", "google_mode"}

\* the null of a column: NaN in a text column, NA in a numeric one
TripsNull(f) == IF f \in TripsTextColumns THEN NaN ELSE NA

\* "set values for variables not in AT data-set"
TripsAtBackfill(r) ==
  [location_tripid |-> r.tripid_linked, data_source |-> 1, day_hhcomplete |-> 99,
   pday_complete |-> 99, nonproxy_derived_trip |-> 99, proxy_added_trip |-> 99,
   origin_name |-> NotApplicable, origin_address |-> NotApplicable,
   destination_name |-> NotApplicable, destination_address |-> NotApplicable,
   transit_access |-> 99, transit_egress |-> 99, toll_no |-> 99, toll_express |-> 99]

\* a complete SDRTS trip row: a one-mode trip in household vehicle 1 reported
\* online, with a geocoded origin, every other answer code 1; the extracts of
\* Init vary some of its columns
TripsDefaults ==
  LET codes ==
        [data_source |-> 2, mode1 |-> 6, mode2 |-> NA, mode3 |-> NA, mode4 |-> NA,
         google_mode |-> "DRIVE", origin_address |-> "1 Main St|", origin_lng |-> 1,
         origin_lat |-> 0, destination_lng |-> NA, destination_lat |-> NA]
  IN [f \in TripsSdrtsColumns |->
        IF f \in DOMAIN codes THEN codes[f]
        ELSE IF f \in TripsTextColumns THEN "text" ELSE 1]

\* a trip row of the AT extract: the AT columns of an SDRTS row
TripsAtRow(r) == [f \in TripsAtColumns |-> r[f]]

\* the SDRTS rows of Init. The mode codes (mode1, mode2, mode3, mode4): walk,
\* household vehicle 1, a regular taxi, a vehicle as second mode, a bus with a
\* rideshare taxi as fourth mode, no mode at all, a code the mapping does
\* not list, a vanpool, a bus. The toll, driver and parking answers: all given,
\* none given. And Online trips by household vehicle that paid for parking, by
\* parking location; by airplane, by the answers to the two airfare questions;
\* and one by ferry
TripsSdrtsRows ==
  LET modes == {<<1, NA, NA, NA>>, <<6, NA, NA, NA>>, <<36, NA, NA, NA>>, <<1, 6, NA, NA>>,
                <<23, NA, NA, 37>>, <<NA, NA, NA, NA>>, <<5, NA, NA, NA>>,
                <<21, NA, NA, NA>>, <<23, NA, NA, NA>>}
      answers == {<<0, 1, 1, 3>>, <<NA, NA, NA, NA>>}
  IN {Override(TripsDefaults,
        [data_source |-> ds, mode1 |-> md[1], mode2 |-> md[2], mode3 |-> md[3],
         mode4 |-> md[4], toll_no |-> an[1], toll_express |-> an[2], driver |-> an[3],
         parklocation |-> an[4]]) :
        ds \in {1, 2}, md \in modes, an \in answers}
     \cup {Override(TripsDefaults, [parklocation |-> p, parktype |-> 3]) : p \in {1, 3, 5, 6}}
     \cup {Override(TripsDefaults, [mode1 |-> 32])}
     \cup {Override(TripsDefaults, [mode1 |-> 31, airtype |-> a, airfare_cost_dk |-> d]) :
             a \in {1, 2, 3}, d \in {0, NA}}

\* the AT rows of Init: the AT columns of the SDRTS rows
TripsAtRows ==
  {TripsAtRow(r) : r \in TripsSdrtsRows}

TripsInit ==
  /\ src \in Extracts(TripsSdrtsRows, TripsAtRows, MaxTripRows)
  /\ df = <<>>
  /\ cats = <<>>
  /\ pc = "trips_concat"
  /\ lines = <<>>
  /\ points = <<>>
  /\ wkts = <<>>
  /\ NoReads

\* the SDRTS rows of TripsWeightsInit: h_complete_weekdays null and
\* 0..MaxWeekdays; travelers_hh counts, the two error codes, null, and a count
\* the mapping does not list
TripsWeightsSdrtsRows ==
  {Override(TripsDefaults, [h_complete_weekdays |-> h, travelers_hh |-> t]) :
     h \in {NA} \cup (0..MaxWeekdays), t \in {1, 2, 3, 10, -9998, -9999, NA, 11}}

\* the AT rows of TripsWeightsInit: the AT columns of the SDRTS rows
TripsWeightsAtRows ==
  {TripsAtRow(r) : r \in TripsWeightsSdrtsRows}

TripsWeightsInit ==
  /\ src \in Extracts(TripsWeightsSdrtsRows, TripsWeightsAtRows, MaxTripRows)
  /\ df = <<>>
  /\ cats = <<>>
  /\ pc = "trips_concat"
  /\ lines = <<>>
  /\ points = <<>>
  /\ wkts = <<>>
  /\ NoReads

\* at_df gets its hardcoded columns, then pd.concat([sdrts, at_df], ignore_index=True):
\* SDRTS rows first, a column one extract lacks is null in its rows
TripsConcat ==
  /\ pc = "trips_concat"
  /\ df' = src.sdrts \o
           MapSeq(src.at, LAMBDA r :
             Reindex(Override(r, TripsAtBackfill(r)), TripsSdrtsColumns, TripsNull))
  /\ pc' = "trips_recode"
  /\ UNCHANGED <<made, cache, built, log, src, cats, lines, points, wkts>>

\* the recode loop: every mapped field becomes a Categorical of its labels, and
\* "Not Applicable" is added to the categories of a field that lacks it
TripsRecode ==
  /\ pc = "trips_recode"
  /\ df' = MapSeq(df, LAMBDA r : RecodeRow(TripsMappings, r))
  /\ cats' = AddCategories(MappingCategories(TripsMappings), DOMAIN TripsMappings,
                           {NotApplicable})
  /\ pc' = "trips_statement_1"
  /\ UNCHANGED <<made, cache, built, log, src, lines, points, wkts>>

\* missing_cols = [...]
missing_cols ==
  {"revised_count", "origin_name", "destination_name", "origin_address", "destination_address",
   "o_purpose_other", "d_purpose_other"}

\* transit_modes = [...]
transit_modes ==
  {"VanpoolBus", "School bus", "Intercity bus", "Shuttle bus", "Paratransit", "Other bus",
   "Subway", "Ferry or water taxi", "University bus or shuttle", "Rail - Light",
   "Rail - Intercity", "Rail - Other", "Express bus/Rapid", "San Diego Coaster Line"}

\* auto_modes = [...]
auto_modes ==
  {"Household vehicle 1", "Household vehicle 2", "Household vehicle 3", "Household vehicle 4",
   "Household vehicle 5", "Household vehicle 6", "Household vehicle 7",
   "Other household vehicle", "Rental car", "Carshare", "Other auto", "Work car",
   "Friends car", "Taxi - Regular", "Taxi - Rideshare"}

\* auto_nontaxi_modes = [...]
auto_nontaxi_modes ==
  {"Household vehicle 1", "Household vehicle 2", "Household vehicle 3", "Household vehicle 4",
   "Household vehicle 5", "Household vehicle 6", "Household vehicle 7",
   "Other household vehicle", "Rental car", "Carshare", "Other auto", "Work car", "Friends car"}

\* taxi_modes = [...]
taxi_modes ==
  {"Taxi - Regular", "Taxi - Rideshare"}

\* bus_modes = [...]
bus_modes ==
  {"Bus", "Intercity bus", "Express bus/Rapid"}

\* rail_modes = [...]
rail_modes ==
  {"Bus", "Intercity bus", "Express bus/Rapid"}

\* a plausible slip: the express-lane column is left out of the column list
TripsTollNoExpress ==
  [kind |-> "loc",
   when |-> <<<<"mode1", "notin", auto_modes>>,
            <<"mode2", "notin", auto_modes>>,
            <<"mode3", "notin", auto_modes>>,
            <<"mode4", "notin", auto_modes>>>>,
   cols |-> {"toll_no", "toll_noexpress"},
   value |-> NotApplicable]

\* df.loc[(~df.mode1.isin(auto_modes)) & (~df.mode2.isin(auto_modes)) &
\* (~df.mode3.isin(auto_modes)) & (~df.mode4.isin(auto_modes)), ["toll_no", "toll...
TripsToll ==
  [kind |-> "loc",
   when |-> <<<<"mode1", "notin", auto_modes>>,
            <<"mode2", "notin", auto_modes>>,
            <<"mode3", "notin", auto_modes>>,
            <<"mode4", "notin", auto_modes>>>>,
   cols |-> {"toll_no", "toll_noexpress", "toll_express"},
   value |-> NotApplicable]

\* a plausible slip: the own driveway is listed with the places where parking
\* can cost money
TripsParkingPayTypeOwnDriveway ==
  [kind |-> "loc",
   when |-> <<<<"parklocation", "notin", {"My own driveway/garage", "Someone elses driveway", "Parking lot/garage",
                                        "On street parking", "Park & Ride lot"}>>>>,
   cols |-> {"parktype"},
   value |-> NotApplicable]

\* a plausible slip: the statement writes the other sentinel label
TripsParkingPayTypeMissing ==
  [kind |-> "loc",
   when |-> <<<<"parklocation", "notin", {"Someone elses driveway", "Parking lot/garage",
                                        "On street parking", "Park & Ride lot"}>>>>,
   cols |-> {"parktype"},
   value |-> Missing]

\* df.loc[~df.parklocation.isin(["Someone elses driveway", "Parking lot/garage", "On street
\* parking", "Park & Ride lot"]), "parktype"] = "Not Applicable"
TripsParkingPayType ==
  [kind |-> "loc",
   when |-> <<<<"parklocation", "notin", {"Someone elses driveway", "Parking lot/garage",
                                        "On street parking", "Park & Ride lot"}>>>>,
   cols |-> {"parktype"},
   value |-> NotApplicable]

\* the manual recode statements of trips, in source order
TripsStatements ==
  <<
    \* df[missing_cols] = df[missing_cols].fillna("Missing")
    [kind |-> "fillna",
     when |-> <<>>,
     cols |-> missing_cols,
     value |-> Missing],
    \* df.loc[df.data_source == "rMove", ["origin_name", "origin_address", "destination_name",
    \* "destination_address", "toll_no", "toll_noexpress", "toll_e...
    [kind |-> "loc",
     when |-> <<<<"data_source", "in", {"rMove"}>>>>,
     cols |-> {"origin_name", "origin_address", "destination_name", "destination_address",
              "toll_no", "toll_noexpress", "toll_express", "transit_access", "transit_egress",
              "parkride_lot", "parkride_city"},
     value |-> NotApplicable],
    \* df.loc[df.data_source == "Online", ["revised_count", "error", "flag_teleport",
    \* "copied_trip", "analyst_merged", "analyst_split", "user_merged", "us...
    [kind |-> "loc",
     when |-> <<<<"data_source", "in", {"Online"}>>>>,
     cols |-> {"revised_count", "error", "flag_teleport", "copied_trip", "analyst_merged",
              "analyst_split", "user_merged", "user_split", "added_trip",
              "nonproxy_derived_trip", "proxy_added_trip", "o_purpose_inferred",
              "d_purpose_inferred"},
     value |-> NotApplicable],
    \* df.loc[df.data_source == "Online", "location_tripid"] = int(0)
    [kind |-> "loc",
     when |-> <<<<"data_source", "in", {"Online"}>>>>,
     cols |-> {"location_tripid"},
     value |-> 0],
    \* df.loc[~df.o_purpose.isin(["Other", "Other purpose"]), "o_purpose_other"] = "Not
    \* Applicable"
    [kind |-> "loc",
     when |-> <<<<"o_purpose", "notin", {"Other", "Other purpose"}>>>>,
     cols |-> {"o_purpose_other"},
     value |-> NotApplicable],
    \* df.loc[~df.d_purpose.isin(["Other", "Other purpose"]), "d_purpose_other"] = "Not
    \* Applicable"
    [kind |-> "loc",
     when |-> <<<<"d_purpose", "notin", {"Other", "Other purpose"}>>>>,
     cols |-> {"d_purpose_other"},
     value |-> NotApplicable],
    \* df.loc[(~df.mode1.isin(transit_modes)) & (~df.mode2.isin(transit_modes)) &
    \* (~df.mode3.isin(transit_modes)) & (~df.mode4.isin(transit_modes)), ["tra...
    [kind |-> "loc",
     when |-> <<<<"mode1", "notin", transit_modes>>,
              <<"mode2", "notin", transit_modes>>,
              <<"mode3", "notin", transit_modes>>,
              <<"mode4", "notin", transit_modes>>>>,
     cols |-> {"transit_access", "transit_egress"},
     value |-> NotApplicable],
    \* df.loc[(~df.mode1.isin(auto_modes)) & (~df.mode2.isin(auto_modes)) &
    \* (~df.mode3.isin(auto_modes)) & (~df.mode4.isin(auto_modes)), ["toll_no", "toll...
    TripsToll,
    \* df.loc[(~df.mode1.isin(auto_nontaxi_modes)) & (~df.mode2.isin(auto_nontaxi_modes)) &
    \* (~df.mode3.isin(auto_nontaxi_modes)) & (~df.mode4.isin(auto_no...
    [kind |-> "loc",
     when |-> <<<<"mode1", "notin", auto_nontaxi_modes>>,
              <<"mode2", "notin", auto_nontaxi_modes>>,
              <<"mode3", "notin", auto_nontaxi_modes>>,
              <<"mode4", "notin", auto_nontaxi_modes>>>>,
     cols |-> {"driver", "parklocation"},
     value |-> NotApplicable],
    \* df.loc[~df.parklocation.isin(["Someone elses driveway", "Parking lot/garage", "On street
    \* parking", "Park & Ride lot"]), "parktype"] = "Not Applicable"
    TripsParkingPayType,
    \* df.loc[~df.parktype.isin(["Paid via cash, credit card, or ticket(s)", "Reserved parking
    \* service (e.g., ParkingPanda)", "Another person paid"]), "pa...
    [kind |-> "loc",
     when |-> <<<<"parktype", "notin", {"Paid via cash, credit card, or ticket(s)",
                                      "Reserved parking service (e.g., ParkingPanda)",
                                      "Another person paid"}>>>>,
     cols |-> {"park_cost_dk"},
     value |-> NotApplicable],
    \* df.loc[df.parklocation != "Park & Ride lot", ["parkride_lot", "parkride_city"]] = "Not
    \* Applicable"
    [kind |-> "loc",
     when |-> <<<<"parklocation", "notin", {"Park & Ride lot"}>>>>,
     cols |-> {"parkride_lot", "parkride_city"},
     value |-> NotApplicable],
    \* df.loc[(~df.mode1.isin(taxi_modes)) & (~df.mode2.isin(taxi_modes)) &
    \* (~df.mode3.isin(taxi_modes)) & (~df.mode4.isin(taxi_modes)), "taxitype"] = "No...
    [kind |-> "loc",
     when |-> <<<<"mode1", "notin", taxi_modes>>,
              <<"mode2", "notin", taxi_modes>>,
              <<"mode3", "notin", taxi_modes>>,
              <<"mode4", "notin", taxi_modes>>>>,
     cols |-> {"taxitype"},
     value |-> NotApplicable],
    \* df.loc[~df.taxitype.isin(["I paid the fare myself (no reimbursement)", "Employer paid (I
    \* am reimbursed)", "Split/shared fare with other(s)"]), "tax...
    [kind |-> "loc",
     when |-> <<<<"taxitype", "notin", {"I paid the fare myself (no reimbursement)",
                                      "Employer paid (I am reimbursed)",
                                      "Split/shared fare with other(s)"}>>>>,
     cols |-> {"taxi_cost_dk"},
     value |-> NotApplicable],
    \* df.loc[(df.mode1 != "Airplane") & (df.mode2 != "Airplane") & (df.mode3 != "Airplane") &
    \* (df.mode4 != "Airplane"), "airtype"] = "Not Applicable"
    [kind |-> "loc",
     when |-> <<<<"mode1", "notin", {"Airplane"}>>,
              <<"mode2", "notin", {"Airplane"}>>,
              <<"mode3", "notin", {"Airplane"}>>,
              <<"mode4", "notin", {"Airplane"}>>>>,
     cols |-> {"airtype"},
     value |-> NotApplicable],
    \* df.loc[~df.taxitype.isin(["Personally paid the airfare cost", "Employer paid 100%"]),
    \* "airfare_cost_dk"] = "Not Applicable"
    [kind |-> "loc",
     when |-> <<<<"taxitype", "notin", {"Personally paid the airfare cost", "Employer paid 100%"}>>>>,
     cols |-> {"airfare_cost_dk"},
     value |-> NotApplicable],
    \* df.loc[(~df.mode1.isin(bus_modes)) & (~df.mode2.isin(bus_modes)) &
    \* (~df.mode3.isin(bus_modes)) & (~df.mode4.isin(bus_modes)), "bustype"] = "Not App...
    [kind |-> "loc",
     when |-> <<<<"mode1", "notin", bus_modes>>,
              <<"mode2", "notin", bus_modes>>,
              <<"mode3", "notin", bus_modes>>,
              <<"mode4", "notin", bus_modes>>>>,
     cols |-> {"bustype"},
     value |-> NotApplicable],
    \* df.loc[df.bustype != "Cash, credit card, or ticket(s)", "bus_cost_dk"] = "Not
    \* Applicable"
    [kind |-> "loc",
     when |-> <<<<"bustype", "notin", {"Cash, credit card, or ticket(s)"}>>>>,
     cols |-> {"bus_cost_dk"},
     value |-> NotApplicable],
    \* df.loc[(~df.mode1.isin(rail_modes)) & (~df.mode2.isin(rail_modes)) &
    \* (~df.mode3.isin(rail_modes)) & (~df.mode4.isin(rail_modes)), "railtype"] = "No...
    [kind |-> "loc",
     when |-> <<<<"mode1", "notin", rail_modes>>,
              <<"mode2", "notin", rail_modes>>,
              <<"mode3", "notin", rail_modes>>,
              <<"mode4", "notin", rail_modes>>>>,
     cols |-> {"railtype"},
     value |-> NotApplicable],
    \* df.loc[df.railtype != "Cash, credit card, or ticket(s)", "rail_cost_dk"] = "Not
    \* Applicable"
    [kind |-> "loc",
     when |-> <<<<"railtype", "notin", {"Cash, credit card, or ticket(s)"}>>>>,
     cols |-> {"rail_cost_dk"},
     value |-> NotApplicable],
    \* df.loc[(df.mode1 != "Ferry or water taxi") & (df.mode2 != "Ferry or water taxi") &
    \* (df.mode3 != "Ferry or water taxi") & (df.mode4 != "Ferry or wat...
    [kind |-> "loc",
     when |-> <<<<"mode1", "notin", {"Ferry or water taxi"}>>,
              <<"mode2", "notin", {"Ferry or water taxi"}>>,
              <<"mode3", "notin", {"Ferry or water taxi"}>>,
              <<"mode4", "notin", {"Ferry or water taxi"}>>>>,
     cols |-> {"ferrytype"},
     value |-> NotApplicable],
    \* df.loc[df.ferrytype != "Cash, credit card, or ticket(s)", "ferry_cost_dk"] = "Not
    \* Applicable"
    [kind |-> "loc",
     when |-> <<<<"ferrytype", "notin", {"Cash, credit card, or ticket(s)"}>>>>,
     cols |-> {"ferry_cost_dk"},
     value |-> NotApplicable]
  >>

\* one manual recode statement
TripsManualRecode ==
  Statement("trips_statement_", TripsStatements, TripsNull, "trips_strip_1")

\* Series.str.replace("\|", "", regex=True): every | is deleted; the addresses
\* of the model hold at most the one | of the default origin address
StripPipes(s) == IF s = "1 Main St|" THEN "1 Main St" ELSE s

\* df[col] = df[col].str.replace("\|", "", regex=True), for origin_address and
\* then destination_address
TripsStrip ==
  \E k \in 1..2 :
    LET col == <<"origin_address", "destination_address">>[k]
    IN /\ pc = "trips_strip_" \o ToString(k)
       /\ df' = [i \in DOMAIN df |-> [df[i] EXCEPT ![col] = StripPipes(@)]]
       /\ pc' = IF k = 2 THEN "trips_weight_person_trip" ELSE "trips_strip_2"
       /\ UNCHANGED <<made, cache, built, log, src, cats, lines, points, wkts>>

\* a weight: the float num / den, held as the pair of its terms
Ratio(num, den) == <<num, den>>

\* the null of a weight column
NoWeight == <<>>

\* range(1, 11) stops before TravelersStop
TravelersStop == 11

\* the labels of travelers_hh that are in range(1, 11)
TravelerLabels == {ToString(n) : n \in 1..(TravelersStop - 1)}

\* the number a traveler label stands for
TravelerCount(label) == CHOOSE n \in 1..(TravelersStop - 1) : ToString(n) = label

\* df.h_complete_weekdays >= 1
Eligible(r) == NumGe(r.h_complete_weekdays, 1)

\* condition = (df.h_complete_weekdays >= 1) & df.travelers_hh.isin(range(1, 11))
condition(r) == Eligible(r) /\ r.travelers_hh \in TravelerLabels

\* df.loc[mask, col] = value for a weight column: a row the mask leaves out
\* keeps its weight, or gets the null when the statement creates the column.
\* On a frame without a row pandas refuses to create a column from a scalar
\* ("cannot set a frame with no defined index and a scalar"): the statement
\* raises ValueError and trips returns nothing
Weigh(from, to, mask(_), col, value(_), scalar) ==
  /\ pc = from
  /\ IF df = <<>> /\ scalar /\ col \notin TripsSdrtsColumns
       THEN /\ df' = df
            /\ pc' = "raised"
       ELSE /\ df' = [i \in DOMAIN df |->
                       [f \in DOMAIN df[i] \cup {col} |->
                          IF f # col THEN df[i][f]
                          ELSE IF mask(df[i]) THEN value(df[i])
                          ELSE IF col \in DOMAIN df[i] THEN df[i][col] ELSE NoWeight]]
            /\ pc' = to
  /\ UNCHANGED <<made, cache, built, log, src, cats, lines, points, wkts>>

\* a plausible slip: the weight is set on every row, eligible or not
TripsWeightPersonTripAll ==
  Weigh("trips_weight_person_trip", "trips_weight_trip_init", LAMBDA r : TRUE,
        "weight_person_trip", LAMBDA r : Ratio(1, 1), TRUE)

\* df.loc[df.h_complete_weekdays >= 1, "weight_person_trip"] = 1
TripsWeightPersonTrip ==
  Weigh("trips_weight_person_trip", "trips_weight_trip_init", Eligible,
        "weight_person_trip", LAMBDA r : Ratio(1, 1), TRUE)

\* df.loc[df.h_complete_weekdays >= 1, "weight_trip"] = 1
TripsWeightTripInit ==
  Weigh("trips_weight_trip_init", "trips_weight_trip", Eligible,
        "weight_trip", LAMBDA r : Ratio(1, 1), TRUE)

\* a plausible slip: the trip weight is not divided by the household travelers
TripsWeightTripUndivided ==
  Weigh("trips_weight_trip", "trips_shape_1", condition, "weight_trip",
        LAMBDA r : Ratio(1, 1), FALSE)

\* df.loc[condition, "weight_trip"] = 1 / df.loc[condition, "travelers_hh"].to_numpy()
TripsWeightTrip ==
  Weigh("trips_weight_trip", "trips_shape_1", condition, "weight_trip",
        LAMBDA r : Ratio(1, TravelerCount(r.travelers_hh)), FALSE)

\* the df[shape] = self.point_wkt(zip(df[lng], df[lat]), "EPSG:2230") statements
TripsShapes ==
  <<
     <<"origin_shape", "origin_lng", "origin_lat">>,
     <<"destination_shape", "destination_lng", "destination_lat">>
  >>

\* one shape statement
TripsShape ==
  ShapeStatement("trips_shape_", TripsShapes, "trips_return")

\* df.rename(columns={...}) and return df[[...]]
TripsReturn ==
  /\ pc = "trips_return"
  /\ df' = MapSeq(df, LAMBDA r : RenameRow(r, TripsRenameColumns, TripsOutputColumns))
  /\ pc' = "done"
  /\ UNCHANGED <<made, cache, built, log, src, cats, lines, points, wkts>>

TripsNext ==
  \/ TripsConcat
  \/ TripsRecode
  \/ TripsManualRecode
  \/ TripsStrip
  \/ TripsWeightPersonTrip
  \/ TripsWeightTripInit
  \/ TripsWeightTrip
  \/ TripsShape
  \/ TripsReturn

SpecTrips == TripsInit /\ [][TripsNext]_vars

SpecTripsWeights == TripsWeightsInit /\ [][TripsNext]_vars

----------------------------------------------------------------------------
(* SurveyData.vehicles *)

MaxVehicleRows == 3   \* rows in the two vehicle extracts together
MaxHh == 2            \* household ids 1..MaxHh
MaxVeh == 2           \* vehicle numbers 1..MaxVeh

\* a vehicle row of either extract (both have the same columns); hhid and
\* vehnum are always present in the extracts
VehicleRows ==
  {[hhid |-> h, vehnum |-> v, fuel |-> 1, obtain |-> 1, tolltransp |-> 1,
    respark_pass |-> 2, respark_pass_dontknow_cost |-> NA] :
     h \in 1..MaxHh, v \in 1..MaxVeh}

VehiclesInit ==
  /\ src \in Extracts(VehicleRows, VehicleRows, MaxVehicleRows)
  /\ df = <<>>
  /\ cats = <<>>
  /\ pc = "vehicles_concat"
  /\ lines = <<>>
  /\ points = <<>>
  /\ wkts = <<>>
  /\ NoReads

\* pd.concat([sdrts, at], ignore_index=True)
VehiclesConcat ==
  /\ pc = "vehicles_concat"
  /\ df' = src.sdrts \o src.at
  /\ pc' = "vehicles_recode"
  /\ UNCHANGED <<made, cache, built, log, src, cats, lines, points, wkts>>

\* the recode loop
VehiclesRecode ==
  /\ pc = "vehicles_recode"
  /\ df' = MapSeq(df, LAMBDA r : RecodeRow(VehiclesMappings, r))
  /\ cats' = MappingCategories(VehiclesMappings)
  /\ pc' = "vehicles_key"
  /\ UNCHANGED <<made, cache, built, log, src, lines, points, wkts>>

\* the group key of a row
VehicleKey(r) == <<r.hhid, r.vehnum>>

\* order of the group keys: by hhid, then by vehnum
KeyLess(p, q) == p[1] < q[1] \/ (p[1] = q[1] /\ p[2] < q[2])

\* a plausible variant: groupby(..., sort=False).ngroup(), groups numbered in
\* the order their keys first appear
NGroupFirstSeen(frame, i) ==
  Cardinality({VehicleKey(frame[j]) : j \in
     {j \in 1..(i - 1) : \A k \in 1..j : VehicleKey(frame[k]) # VehicleKey(frame[i])}})

\* a plausible slip: groupby(["hhid"]).ngroup(), the vehicle number left out
\* of the group key
NGroupHouseholdOnly(frame, i) ==
  Cardinality({h \in {frame[j].hhid : j \in DOMAIN frame} : h < frame[i].hhid})

\* df.groupby(["hhid", "vehnum"]).ngroup(): groupby sorts the group keys
\* (sort=True is the default), ngroup numbers the groups from 0 in that order
NGroup(frame, i) ==
  Cardinality({k \in {VehicleKey(frame[j]) : j \in DOMAIN frame} :
                 KeyLess(k, VehicleKey(frame[i]))})

\* df["vehicle_id"] = df.groupby(["hhid", "vehnum"]).ngroup() + 1
VehiclesKey ==
  /\ pc = "vehicles_key"
  /\ df' = [i \in DOMAIN df |-> Override(df[i], [vehicle_id |-> NGroup(df, i) + 1])]
  /\ pc' = "vehicles_return"
  /\ UNCHANGED <<made, cache, built, log, src, cats, lines, points, wkts>>

\* df.rename(columns={...})
VehiclesRenameColumns ==
  [hhid |-> "household_id", vehnum |-> "vehicle_number", fuel |-> "fuel_type",
   obtain |-> "how_obtained", tolltransp |-> "toll_transponder",
   respark_pass |-> "residence_parking_pass",
   respark_pass_dontknow_cost |-> "residence_parking_cost_unknown"]

\* the column list of the returned frame (the columns the model follows)
VehiclesOutputColumns ==
  {"vehicle_id", "household_id", "vehicle_number", "fuel_type", "how_obtained",
   "toll_transponder", "residence_parking_pass", "residence_parking_cost_unknown"}

\* rename the columns and return the output column list
VehiclesReturn ==
  /\ pc = "vehicles_return"
  /\ df' = MapSeq(df, LAMBDA r : RenameRow(r, VehiclesRenameColumns, VehiclesOutputColumns))
  /\ pc' = "done"
  /\ UNCHANGED <<made, cache, built, log, src, cats, lines, points, wkts>>

VehiclesNext == VehiclesConcat \/ VehiclesRecode \/ VehiclesKey \/ VehiclesReturn

SpecVehicles == VehiclesInit /\ [][VehiclesNext]_vars

----------------------------------------------------------------------------
(* SurveyData.border_trips *)

MaxBorderRows == 2   \* households in the two household extracts together

\* stubnames of pd.wide_to_long
BorderStubs ==
  {"border_mode", "border_poe", "border_purpose", "border_duration", "border_party"}

\* the numeric suffixes of the wide columns border_mode_1 .. border_party_4
BorderSuffixes == {1, 2, 3, 4}

\* the wide column of a stub and a suffix, with sep="_"
WideColumn(stub, j) == stub \o "_" \o ToString(j)

\* what one occurrence slot of a wide household row can hold: nothing, five
\* mapped codes, mapped codes with the party size left empty, or mapped codes
\* with a duration code that the mapping does not list
BorderSlot(kind) ==
  [stub \in BorderStubs |->
     CASE kind = "empty" -> NA
       [] kind = "full" -> 1
       [] kind = "partial" -> IF stub = "border_party" THEN NA ELSE 2
       [] kind = "unmapped" -> IF stub = "border_duration" THEN 97 ELSE 3]

\* the slot contents of the wide rows of Init
BorderSlotChoices ==
  {<<"empty", "empty", "empty", "empty">>, <<"empty", "full", "empty", "empty">>,
   <<"full", "full", "empty", "empty">>, <<"partial", "full", "empty", "empty">>,
   <<"full", "empty", "unmapped", "full">>, <<"partial", "empty", "unmapped", "full">>}

\* a wide household row of either extract (both have the same columns)
BorderWideRow(h, kinds) ==
  [c \in {"hhid"} \cup {WideColumn(s, j) : s \in BorderStubs, j \in BorderSuffixes} |->
     IF c = "hhid" THEN h
     ELSE LET sj == CHOOSE sj \in BorderStubs \X BorderSuffixes :
                      WideColumn(sj[1], sj[2]) = c
          IN BorderSlot(kinds[sj[2]])[sj[1]]]

BorderRows == {BorderWideRow(h, kinds) : h \in 1..MaxHh, kinds \in BorderSlotChoices}

BorderInit ==
  /\ src \in Extracts(BorderRows, BorderRows, MaxBorderRows)
  /\ df = <<>>
  /\ cats = <<>>
  /\ pc = "border_concat"
  /\ lines = <<>>
  /\ points = <<>>
  /\ wkts = <<>>
  /\ NoReads

\* pd.concat([sdrts, at], ignore_index=True)
BorderConcat ==
  /\ pc = "border_concat"
  /\ df' = src.sdrts \o src.at
  /\ pc' = "border_wide_to_long"
  /\ UNCHANGED <<made, cache, built, log, src, cats, lines, points, wkts>>

\* the long rows of one suffix: one per wide row, in wide-row order
LongRows(frame, j) ==
  [i \in DOMAIN frame |->
     [c \in {"hhid", "trip_id"} \cup BorderStubs |->
        IF c = "hhid" THEN frame[i].hhid
        ELSE IF c = "trip_id" THEN j
        ELSE frame[i][WideColumn(c, j)]]]

\* pd.wide_to_long(df, stubnames, sep="_", i="hhid", j="trip_id"): raises when
\* hhid does not identify the wide rows; otherwise one long row per wide row
\* and suffix, all rows of suffix 1 first, then suffix 2, ...
BorderWideToLong ==
  /\ pc = "border_wide_to_long"
  /\ IF \E a, b \in DOMAIN df : a # b /\ df[a].hhid = df[b].hhid
       THEN /\ pc' = "failed"
            /\ df' = df
       ELSE /\ pc' = "border_recode"
            /\ df' = Flatten([j \in 1..Cardinality(BorderSuffixes) |-> LongRows(df, j)])
  /\ UNCHANGED <<made, cache, built, log, src, cats, lines, points, wkts>>

\* the recode loop
BorderRecode ==
  /\ pc = "border_recode"
  /\ df' = MapSeq(df, LAMBDA r : RecodeRow(BorderTripsMappings, r))
  /\ cats' = MappingCategories(BorderTripsMappings)
  /\ pc' = "border_dropna"
  /\ UNCHANGED <<made, cache, built, log, src, lines, points, wkts>>

\* df.dropna(): how="any" is the default, a row is dropped when any column is
\* null (hhid and trip_id are the index, not columns)
DropsRow(r) == \E c \in BorderStubs : r[c] = NaN

\* a plausible slip: the placeholder rows are not dropped
KeepsEveryRow(r) == TRUE

\* the rows dropna keeps
KeepsRow(r) == ~DropsRow(r)

\* df.dropna(inplace=True)
BorderDropna ==
  /\ pc = "border_dropna"
  /\ df' = SelectSeq(df, KeepsRow)
  /\ pc' = "border_key"
  /\ UNCHANGED <<made, cache, built, log, src, cats, lines, points, wkts>>

\* df["border_trip_id"] = np.arange(len(df))
BorderKey ==
  /\ pc = "border_key"
  /\ df' = [i \in DOMAIN df |-> Override(df[i], [border_trip_id |-> i - 1])]
  /\ pc' = "border_return"
  /\ UNCHANGED <<made, cache, built, log, src, cats, lines, points, wkts>>

\* df.rename(columns={...})
BorderRenameColumns ==
  [hhid |-> "household_id", border_mode |-> "mode", border_poe |-> "port_of_entry",
   border_purpose |-> "purpose", border_duration |-> "duration",
   border_party |-> "party_size"]

\* the column list of the returned frame
BorderOutputColumns ==
  {"border_trip_id", "household_id", "trip_id", "mode", "port_of_entry", "purpose",
   "duration", "party_size"}

\* reset_index, rename the columns and return the output column list
BorderReturn ==
  /\ pc = "border_return"
  /\ df' = MapSeq(df, LAMBDA r : RenameRow(r, BorderRenameColumns, BorderOutputColumns))
  /\ pc' = "done"
  /\ UNCHANGED <<made, cache, built, log, src, cats, lines, points, wkts>>

BorderNext ==
  \/ BorderConcat \/ BorderWideToLong \/ BorderRecode \/ BorderDropna \/ BorderKey
  \/ BorderReturn

SpecBorder == BorderInit /\ [][BorderNext]_vars

----------------------------------------------------------------------------
(* SurveyData.households *)

MaxHouseholdRows == 2   \* rows in the two household extracts together

\* usecols of the AT extract
HouseholdsAtColumns ==
  {"hhid", "hhgroup", "traveldate_start", "mobile_recruit", "recruit_start_pt",
   "recruit_end_pt", "num_rmove_participants", "participate_future_studies", "hh_iscomplete",
   "numdays_complete", "language_pref", "language_pref_other", "hhsize", "numadults",
   "numkids", "numworkers", "vehicle_count", "bicycle_count", "share_car", "share_bike",
   "share_vanpool", "home_address", "home_lat", "home_lng", "res_duration", "rent_own",
   "res_type", "hhincome_detailed", "hhincome_broad", "tool_paper", "tool_freq_paper",
   "tool_carnav", "tool_freq_carnav", "tool_511sd", "tool_freq_511sd", "tool_apple",
   "tool_freq_apple", "tool_car2go", "tool_freq_car2go", "tool_google", "tool_freq_google",
   "tool_icommutesd", "tool_freq_icommutesd", "tool_lyft", "tool_freq_lyft", "tool_mapmy",
   "tool_freq_mapmy", "tool_mapquest", "tool_freq_mapquest", "tool_sdmts", "tool_freq_sdmts",
   "tool_nctd", "tool_freq_nctd", "tool_waze", "tool_freq_waze", "tool_uber", "tool_freq_uber",
   "tool_other", "tool_other_specify", "tool_freq_other", "tool_none", "border_freq_1"}

\* usecols of the SDRTS extract
HouseholdsSdrtsColumns ==
  {"hhid", "sample_segment", "hhgroup", "traveldate_start", "callcenter_recruit",
   "mobile_recruit", "recruit_start_pt", "recruit_end_pt", "num_rmove_participants",
   "participate_future_studies", "hh_iscomplete", "numdays_complete", "language_pref",
   "language_pref_other", "hhsize", "numadults", "numkids", "numworkers", "vehicle_count",
   "bicycle_count", "share_car", "share_bike", "share_vanpool", "home_address", "home_lat",
   "home_lng", "res_duration", "rent_own", "res_type", "hhincome_detailed", "hhincome_broad",
   "tool_paper", "tool_freq_paper", "tool_carnav", "tool_freq_carnav", "tool_511sd",
   "tool_freq_511sd", "tool_apple", "tool_freq_apple", "tool_car2go", "tool_freq_car2go",
   "tool_google", "tool_freq_google", "tool_icommutesd", "tool_freq_icommutesd", "tool_lyft",
   "tool_freq_lyft", "tool_mapmy", "tool_freq_mapmy", "tool_mapquest", "tool_freq_mapquest",
   "tool_sdmts", "tool_freq_sdmts", "tool_nctd", "tool_freq_nctd", "tool_waze",
   "tool_freq_waze", "tool_uber", "tool_freq_uber", "tool_other", "tool_other_specify",
   "tool_freq_other", "tool_none", "border_freq_1", "hh_init_wt", "hh_weight_4x",
   "hh_final_weight_456x"}

\* df.rename(columns={...})
HouseholdsRenameColumns ==
  [hhid |-> "household_id", hhgroup |-> "sample_group",
   traveldate_start |-> "travel_date_start", callcenter_recruit |-> "recruit_survey_where",
   mobile_recruit |-> "recruit_survey_mobile", recruit_start_pt |-> "recruit_survey_start",
   recruit_end_pt |-> "recruit_survey_end",
   num_rmove_participants |-> "number_rmove_participants",
   hh_iscomplete |-> "household_completed", numdays_complete |-> "completed_days",
   language_pref |-> "language", language_pref_other |-> "language_other",
   hhsize |-> "persons", numadults |-> "adults", numkids |-> "children",
   numworkers |-> "workers", vehicle_count |-> "vehicles", bicycle_count |-> "bicycles",
   share_car |-> "has_share_car", share_bike |-> "has_share_bicycle",
   share_vanpool |-> "has_share_vanpool", home_address |-> "address", home_lat |-> "latitude",
   home_lng |-> "longitude", res_duration |-> "residence_duration",
   rent_own |-> "residence_tenure_status", res_type |-> "residence_type",
   hhincome_detailed |-> "income_category_detailed",
   hhincome_broad |-> "income_category_broad", tool_paper |-> "use_paper_maps",
   tool_freq_paper |-> "freq_paper_maps", tool_carnav |-> "use_car_navigation",
   tool_freq_carnav |-> "freq_car_navigation", tool_511sd |-> "use_511sd",
   tool_freq_511sd |-> "freq_511sd", tool_apple |-> "use_apple_maps",
   tool_freq_apple |-> "freq_apple_maps", tool_car2go |-> "use_car2go",
   tool_freq_car2go |-> "freq_car2go", tool_google |-> "use_google_maps",
   tool_freq_google |-> "freq_google_maps", tool_icommutesd |-> "use_icommutesd",
   tool_freq_icommutesd |-> "freq_icommutesd", tool_lyft |-> "use_lyft",
   tool_freq_lyft |-> "freq_lyft", tool_mapmy |-> "use_mapmyride",
   tool_freq_mapmy |-> "freq_mapmyride", tool_mapquest |-> "use_mapquest",
   tool_freq_mapquest |-> "freq_mapquest", tool_sdmts |-> "use_sdmts",
   tool_freq_sdmts |-> "freq_sdmts", tool_nctd |-> "use_nctd", tool_freq_nctd |-> "freq_nctd",
   tool_waze |-> "use_waze", tool_freq_waze |-> "freq_waze", tool_uber |-> "use_uber",
   tool_freq_uber |-> "freq_uber", tool_other |-> "use_other_tool",
   tool_other_specify |-> "specify_other_tool", tool_freq_other |-> "freq_other_tool",
   tool_none |-> "use_no_navigation_tools", border_freq_1 |-> "freq_cross_border",
   hh_init_wt |-> "weight_household_initial", hh_weight_4x |-> "weight_household_4x",
   hh_final_weight_456x |-> "weight_household_456x"]

\* the column list of the returned frame
HouseholdsOutputColumns ==
  {"household_id", "sample_segment", "sample_group", "travel_date_start",
   "recruit_survey_where", "recruit_survey_mobile", "recruit_survey_start",
   "recruit_survey_end", "number_rmove_participants", "participate_future_studies",
   "household_completed", "completed_days", "language", "language_other", "persons", "adults",
   "children", "workers", "vehicles", "bicycles", "has_share_car", "has_share_bicycle",
   "has_share_vanpool", "address", "latitude", "longitude", "shape", "residence_duration",
   "residence_tenure_status", "residence_type", "income_category_detailed",
   "income_category_broad", "use_paper_maps", "freq_paper_maps", "use_car_navigation",
   "freq_car_navigation", "use_511sd", "freq_511sd", "use_apple_maps", "freq_apple_maps",
   "use_car2go", "freq_car2go", "use_google_maps", "freq_google_maps", "use_icommutesd",
   "freq_icommutesd", "use_lyft", "freq_lyft", "use_mapmyride", "freq_mapmyride",
   "use_mapquest", "freq_mapquest", "use_sdmts", "freq_sdmts", "use_nctd", "freq_nctd",
   "use_waze", "freq_waze", "use_uber", "freq_uber", "use_other_tool", "specify_other_tool",
   "freq_other_tool", "use_no_navigation_tools", "freq_cross_border",
   "weight_household_initial", "weight_household_4x", "weight_household_456x"}

\* the columns read_csv reads as text (no integer dtype, not a number)
HouseholdsTextColumns ==
  {"sample_segment", "traveldate_start", "recruit_start_pt", "recruit_end_pt",
   "language_pref_other", "home_address", "tool_other_specify"}

\* the null of a column: NaN in a text column, NA in a numeric one
HouseholdsNull(f) == IF f \in HouseholdsTextColumns THEN NaN ELSE NA

\* "set values for variables not in AT data-set"
HouseholdsAtBackfill ==
  [sample_segment |-> "AT segment", callcenter_recruit |-> 99]

\* a complete SDRTS household row: a regular-sample household with a geocoded
\* home, every other answer code 1; the extracts of Init vary some of its
\* columns
HouseholdsDefaults ==
  LET codes == [sample_segment |-> "Regular", home_lng |-> 1, home_lat |-> 0]
  IN [f \in HouseholdsSdrtsColumns |->
        IF f \in DOMAIN codes THEN codes[f]
        ELSE IF f \in HouseholdsTextColumns THEN "text" ELSE 1]

\* the SDRTS rows of Init: households 1..MaxHh of the rMove-only and of the
\* online-diary-only group
HouseholdsSdrtsRows ==
  {Override(HouseholdsDefaults, [hhid |-> h, hhgroup |-> g]) : h \in 1..MaxHh, g \in {1, 3}}

\* the AT rows of Init: the AT columns of the SDRTS rows
HouseholdsAtRows ==
  {[f \in HouseholdsAtColumns |-> r[f]] : r \in HouseholdsSdrtsRows}

HouseholdsInit ==
  /\ src \in Extracts(HouseholdsSdrtsRows, HouseholdsAtRows, MaxHouseholdRows)
  /\ df = <<>>
  /\ cats = <<>>
  /\ pc = "households_concat"
  /\ lines = <<>>
  /\ points = <<>>
  /\ wkts = <<>>
  /\ NoReads

\* at_df gets its hardcoded columns, then pd.concat([sdrts, at_df], ignore_index=True):
\* SDRTS rows first, a column one extract lacks is null in its rows
HouseholdsConcat ==
  /\ pc = "households_concat"
  /\ df' = src.sdrts \o
           MapSeq(src.at, LAMBDA r :
             Reindex(Override(r, HouseholdsAtBackfill), HouseholdsSdrtsColumns, HouseholdsNull))
  /\ pc' = "households_recode"
  /\ UNCHANGED <<made, cache, built, log, src, cats, lines, points, wkts>>

\* the recode loop: every mapped field becomes a Categorical of its labels
HouseholdsRecode ==
  /\ pc = "households_recode"
  /\ df' = MapSeq(df, LAMBDA r : RecodeRow(HouseholdsMappings, r))
  /\ cats' = MappingCategories(HouseholdsMappings)
  /\ pc' = "households_statement_1"
  /\ UNCHANGED <<made, cache, built, log, src, lines, points, wkts>>

\* the conditional recode statements of households, in source order
HouseholdsStatements ==
  <<
    \* df.loc[df.hhgroup == "Group 3: Online diary only", "num_rmove_participants"] = "Not
    \* Applicable"
    [kind |-> "loc",
     when |-> <<<<"hhgroup", "in", {"Group 3: Online diary only"}>>>>,
     cols |-> {"num_rmove_participants"},
     value |-> NotApplicable],
    \* df.loc[df.language_pref != "Other", "language_pref_other"] = "Not Applicable"
    [kind |-> "loc",
     when |-> <<<<"language_pref", "notin", {"Other"}>>>>,
     cols |-> {"language_pref_other"},
     value |-> NotApplicable],
    \* df.loc[df.tool_other == "No", "tool_other_specify"] = "Not Applicable"
    [kind |-> "loc",
     when |-> <<<<"tool_other", "in", {"No"}>>>>,
     cols |-> {"tool_other_specify"},
     value |-> NotApplicable]
  >>

\* one conditional recode statement
HouseholdsManualRecode ==
  Statement("households_statement_", HouseholdsStatements, HouseholdsNull, "households_shape_1")

\* df["shape"] = self.point_wkt(zip(df["home_lng"], df["home_lat"]), "EPSG:2230")
HouseholdsShapes ==
  <<
     <<"shape", "home_lng", "home_lat">>
  >>

\* the shape statement
HouseholdsShape ==
  ShapeStatement("households_shape_", HouseholdsShapes, "households_return")

\* df.rename(columns={...}) and return df[[...]]
HouseholdsReturn ==
  /\ pc = "households_return"
  /\ df' = MapSeq(df, LAMBDA r : RenameRow(r, HouseholdsRenameColumns, HouseholdsOutputColumns))
  /\ pc' = "done"
  /\ UNCHANGED <<made, cache, built, log, src, cats, lines, points, wkts>>

HouseholdsNext ==
  \/ HouseholdsConcat
  \/ HouseholdsRecode
  \/ HouseholdsManualRecode
  \/ HouseholdsShape
  \/ HouseholdsReturn

SpecHouseholds == HouseholdsInit /\ [][HouseholdsNext]_vars

----------------------------------------------------------------------------
(* SurveyData.intercept *)

MaxInterceptRows == 1   \* rows in the intercept extract

\* usecols of the intercept extract
InterceptColumns ==
  {"hhid", "status", "survey_start_pdt", "survey_end_pdt", "survey_day", "pilot_study",
   "origin_purpose_1_1", "employment_int_1_1", "student_int_1_1", "origin_loc_address_1",
   "origin_loc_lat_1", "origin_loc_lng_1", "dest_purpose_1_1", "dest_loc_address_1",
   "dest_loc_lat_1", "dest_loc_lng_1", "distance_beeline", "distance_beeline_agg",
   "work_int_1_1", "work_int_1_2", "school_int_1_1", "school_int_1_2", "vehicle_count_1_1",
   "age_groups_1_1", "age_groups_1_2", "age_groups_1_3", "age_int_1_1", "smartphone_int_1_1",
   "resident_int_1_1", "bikeparty_1_1", "bikeshare_1_1", "gender_1_1",
   "intercept_location_1_1", "intercept_location_dir_1_1", "language_1_1", "rmove_qualify",
   "optout_1_1", "rmove_participate", "rmove_complete", "recruit_complete", "survey_time_peak",
   "expansion_site", "exp_factor"}

\* df.rename(columns={...})
InterceptRenameColumns ==
  [hhid |-> "household_id", status |-> "survey_status", survey_start_pdt |-> "survey_start",
   survey_end_pdt |-> "survey_end", survey_day |-> "survey_date",
   origin_purpose_1_1 |-> "origin_purpose", employment_int_1_1 |-> "employment_status",
   student_int_1_1 |-> "student_status", origin_loc_address_1 |-> "origin_address",
   origin_loc_lat_1 |-> "origin_latitude", origin_loc_lng_1 |-> "origin_longitude",
   dest_purpose_1_1 |-> "destination_purpose", dest_loc_address_1 |-> "destination_address",
   dest_loc_lat_1 |-> "destination_latitude", dest_loc_lng_1 |-> "destination_longitude",
   distance_beeline |-> "distance_beeline", distance_beeline_agg |-> "distance_beeline_bin",
   vehicle_count_1_1 |-> "number_household_vehicles",
   age_groups_1_1 |-> "number_children_0_15", age_groups_1_2 |-> "number_children_16_17",
   age_groups_1_3 |-> "number_adults", age_int_1_1 |-> "age",
   smartphone_int_1_1 |-> "smartphone", resident_int_1_1 |-> "resident",
   bikeparty_1_1 |-> "bike_party", bikeshare_1_1 |-> "bike_share", gender_1_1 |-> "gender",
   intercept_location_1_1 |-> "intercept_site",
   intercept_location_dir_1_1 |-> "intercept_direction", language_1_1 |-> "language",
   rmove_qualify |-> "rmove_qualify", optout_1_1 |-> "opt_out",
   rmove_participate |-> "rmove_participate", rmove_complete |-> "rmove_complete",
   recruit_complete |-> "recruit_complete", survey_time_peak |-> "survey_time_peak",
   expansion_site |-> "expansion_site", exp_factor |-> "expansion_factor"]

\* the column list of the returned frame
InterceptOutputColumns ==
  {"household_id", "survey_status", "survey_start", "survey_end", "survey_date", "pilot_study",
   "origin_purpose", "employment_status", "student_status", "origin_address",
   "origin_latitude", "origin_longitude", "destination_purpose", "destination_address",
   "destination_latitude", "destination_longitude", "distance_beeline", "distance_beeline_bin",
   "visit_work", "visit_school", "number_household_vehicles", "number_children_0_15",
   "number_children_16_17", "number_adults", "age", "smartphone", "resident", "bike_party",
   "bike_share", "gender", "intercept_site", "intercept_direction", "language",
   "rmove_qualify", "opt_out", "rmove_participate", "rmove_complete", "recruit_complete",
   "survey_time_peak", "expansion_site", "expansion_factor"}

\* the columns read_csv reads as text (no integer dtype, not a number)
InterceptTextColumns ==
  {"survey_start_pdt", "survey_end_pdt", "survey_day", "origin_loc_address_1",
   "dest_loc_address_1"}

\* the codes a visit question is given in Init: Yes, No, Not Applicable, no
\* answer, and a code the mapping does not declare
VisitCodes == {1, 2, 3, NA, 4}

\* a complete intercept row: every answer code 1
InterceptDefaults ==
  [f \in InterceptColumns |-> IF f \in InterceptTextColumns THEN "text" ELSE 1]

\* the rows of Init: every pair of answers to the two work questions, and to
\* the two school questions
InterceptRows ==
  {Override(InterceptDefaults, [work_int_1_1 |-> a, work_int_1_2 |-> b]) :
     a \in VisitCodes, b \in VisitCodes}
  \cup {Override(InterceptDefaults, [school_int_1_1 |-> a, school_int_1_2 |-> b]) :
          a \in VisitCodes, b \in VisitCodes}

\* df = pd.read_csv("../data/at/SDRTS_AT_Intercept_Data_20170608.csv", ...): the
\* one extract of the pipeline
InterceptInit ==
  /\ src \in Extracts({}, InterceptRows, MaxInterceptRows)
  /\ df = <<>>
  /\ cats = <<>>
  /\ pc = "intercept_read"
  /\ lines = <<>>
  /\ points = <<>>
  /\ wkts = <<>>
  /\ NoReads

\* the frame is the extract
InterceptRead ==
  /\ pc = "intercept_read"
  /\ df' = src.at
  /\ pc' = "intercept_recode"
  /\ UNCHANGED <<made, cache, built, log, src, cats, lines, points, wkts>>

\* the recode loop: every mapped field becomes a Categorical of its labels
InterceptRecode ==
  /\ pc = "intercept_recode"
  /\ df' = MapSeq(df, LAMBDA r : RecodeRow(InterceptMappings, r))
  /\ cats' = MappingCategories(InterceptMappings)
  /\ pc' = "intercept_visit_1"
  /\ UNCHANGED <<made, cache, built, log, src, lines, points, wkts>>

\* a plausible slip: only "Missing" falls back to the secondary field
WhereMissingOnly(r, primary, secondary) ==
  IF r[primary] \in {Missing} THEN r[secondary] ELSE r[primary]

\* np.where(df[primary].isin(["Missing", "Not Applicable"]), df[secondary], df[primary])
\* on one row; a null is not in the list
Where(r, primary, secondary) ==
  IF r[primary] \in {Missing, NotApplicable} THEN r[secondary] ELSE r[primary]

\* the two combined visit columns, in source order
InterceptVisits ==
  <<[col |-> "visit_work", primary |-> "work_int_1_1", secondary |-> "work_int_1_2"],
    [col |-> "visit_school", primary |-> "school_int_1_1", secondary |-> "school_int_1_2"]>>

\* df[col] = np.where(...) for one of the two visit columns
InterceptCombine ==
  \E k \in DOMAIN InterceptVisits :
    LET v == InterceptVisits[k]
    IN /\ pc = "intercept_visit_" \o ToString(k)
       /\ df' = MapSeq(df, LAMBDA r :
                  Override(r, [g \in {v.col} |-> Where(r, v.primary, v.secondary)]))
       /\ pc' = IF k = Len(InterceptVisits) THEN "intercept_return"
                ELSE "intercept_visit_" \o ToString(k + 1)
       /\ UNCHANGED <<made, cache, built, log, src, cats, lines, points, wkts>>

\* df.rename(columns={...}) and return df[[...]]
InterceptReturn ==
  /\ pc = "intercept_return"
  /\ df' = MapSeq(df, LAMBDA r : RenameRow(r, InterceptRenameColumns, InterceptOutputColumns))
  /\ pc' = "done"
  /\ UNCHANGED <<made, cache, built, log, src, cats, lines, points, wkts>>

InterceptNext ==
  \/ InterceptRead
  \/ InterceptRecode
  \/ InterceptCombine
  \/ InterceptReturn

SpecIntercept == InterceptInit /\ [][InterceptNext]_vars

----------------------------------------------------------------------------
(* SurveyData.location *)

MaxLocationRows == 3   \* rows in the two location extracts together

\* usecols of both location extracts
LocationColumns ==
  {"tripid", "collected_at", "accuracy", "heading", "speed", "lat", "lng"}

\* the (lng, lat) pairs of the rows of Init
LocationCoords == {<<0, 0>>, <<1, 0>>}

\* the rows of Init: two trips, two collection times (the text of a later
\* time sorts after the text of an earlier one), two places; and one point
\* with no trip id
LocationRows ==
  {[tripid |-> k, collected_at |-> t, accuracy |-> 1, heading |-> 1, speed |-> 1,
    lng |-> c[1], lat |-> c[2]] : k \in {1, 2}, t \in {1, 2}, c \in LocationCoords}
  \cup {[tripid |-> NA, collected_at |-> 1, accuracy |-> 1, heading |-> 1, speed |-> 1,
         lng |-> 0, lat |-> 0]}

LocationInit ==
  /\ src \in Extracts(LocationRows, LocationRows, MaxLocationRows)
  /\ df = <<>>
  /\ cats = <<>>
  /\ pc = "location_concat"
  /\ lines = <<>>
  /\ points = <<>>
  /\ wkts = <<>>
  /\ NoReads

\* points = pd.concat([sdrts, at], ignore_index=True)
LocationConcat ==
  /\ pc = "location_concat"
  /\ points' = src.sdrts \o src.at
  /\ pc' = "location_sort"
  /\ UNCHANGED <<made, cache, built, log, src, df, cats, lines, wkts>>

\* a plausible slip: the rows are sorted by trip only
RowLessTripOnly(a, b) ==
  a.tripid # NA /\ (b.tripid = NA \/ a.tripid < b.tripid)

\* row a sorts strictly before row b by ["tripid", "collected_at"]; a null
\* trip id sorts last
RowLess(a, b) ==
  \/ a.tripid # NA /\ (b.tripid = NA \/ a.tripid < b.tripid)
  \/ a.tripid = b.tripid /\ a.collected_at < b.collected_at

RECURSIVE InsertSorted(_, _)
\* row r put behind the rows of the sorted frame s that do not sort after it
InsertSorted(s, r) ==
  IF s = <<>> THEN <<r>>
  ELSE IF RowLess(r, Head(s)) THEN <<r>> \o s
  ELSE <<Head(s)>> \o InsertSorted(Tail(s), r)

RECURSIVE SortValues(_)
\* frame.sort_values(by=["tripid", "collected_at"]): the sort on several
\* columns is stable, rows with equal keys keep their order
SortValues(frame) ==
  IF frame = <<>> THEN <<>>
  ELSE InsertSorted(SortValues(SubSeq(frame, 1, Len(frame) - 1)), frame[Len(frame)])

\* a plausible slip: sort_values without inplace=True leaves the frame as read
LocationSortNotInPlace ==
  /\ pc = "location_sort"
  /\ points' = points
  /\ pc' = "location_groupby"
  /\ UNCHANGED <<made, cache, built, log, src, df, cats, lines, wkts>>

\* points.sort_values(by=["tripid", "collected_at"], inplace=True)
LocationSort ==
  /\ pc = "location_sort"
  /\ points' = SortValues(points)
  /\ pc' = "location_groupby"
  /\ UNCHANGED <<made, cache, built, log, src, df, cats, lines, wkts>>

RECURSIVE SortedKeys(_)
\* the keys of a groupby in the order of its result: ascending
SortedKeys(S) ==
  IF S = {} THEN <<>>
  ELSE LET least == CHOOSE x \in S : \A y \in S : x <= y
       IN <<least>> \o SortedKeys(S \ {least})

\* points["coordinates"] = list(zip(points.lng, points.lat));
\* points.groupby("tripid")["coordinates"].apply(list).reset_index(name="coordinates"):
\* one row per trip id that is not null, its coordinates in frame order
GroupBy(frame) ==
  LET keys == SortedKeys({frame[i].tripid : i \in DOMAIN frame} \ {NA})
  IN [j \in DOMAIN keys |->
        [tripid |-> keys[j],
         coordinates |-> MapSeq(SelectSeq(frame, LAMBDA r : r.tripid = keys[j]),
                                LAMBDA r : <<r.lng, r.lat>>)]]

\* lines = points.groupby("tripid")["coordinates"].apply(list).reset_index(...)
LocationGroupBy ==
  /\ pc = "location_groupby"
  /\ lines' = GroupBy(points)
  /\ pc' = "location_line_wkt"
  /\ UNCHANGED <<made, cache, built, log, src, df, cats, points, wkts>>

\* what line_wkt appends for one line
LineWktOf(line) ==
  IF LineNonEmpty(line)
  THEN LET value == LineValue(RemoveDuplicates(line))
       IN IF IsValid(value) THEN Wkt(value) ELSE None
  ELSE None

\* lines["shape"] = self.line_wkt(lines["coordinates"], "EPSG:2230")
LocationLineWkt ==
  /\ pc = "location_line_wkt"
  /\ lines' = MapSeq(lines, LAMBDA r : Override(r, [shape |-> LineWktOf(r.coordinates)]))
  /\ pc' = "location_point_wkt"
  /\ UNCHANGED <<made, cache, built, log, src, df, cats, points, wkts>>

\* points["shape"] = self.point_wkt(zip(points["lng"], points["lat"]), "EPSG:2230")
LocationPointWkt ==
  /\ pc = "location_point_wkt"
  /\ points' = MapSeq(points, LAMBDA r : Override(r, [shape |-> PointWkt(<<r.lng, r.lat>>)]))
  /\ pc' = "location_key"
  /\ UNCHANGED <<made, cache, built, log, src, df, cats, lines, wkts>>

\* points["point_id"] = np.arange(len(points))
LocationKey ==
  /\ pc = "location_key"
  /\ points' = [i \in DOMAIN points |-> Override(points[i], [point_id |-> i - 1])]
  /\ pc' = "location_return"
  /\ UNCHANGED <<made, cache, built, log, src, df, cats, lines, wkts>>

\* points.rename(columns={...})
LocationRenameColumns ==
  [tripid |-> "trip_id_location", lat |-> "latitude", lng |-> "longitude"]

\* the column list of the returned "points" frame
LocationPointsColumns ==
  {"point_id", "trip_id_location", "collected_at", "accuracy", "heading", "speed",
   "latitude", "longitude", "shape"}

\* the column list of the returned "lines" frame
LocationLinesColumns == {"trip_id_location", "shape"}

\* the two renames and return {"points": points[[...]], "lines": lines[[...]]}
LocationReturn ==
  /\ pc = "location_return"
  /\ points' = MapSeq(points,
                 LAMBDA r : RenameRow(r, LocationRenameColumns, LocationPointsColumns))
  /\ lines' = MapSeq(lines,
                LAMBDA r : RenameRow(r, [tripid |-> "trip_id_location"], LocationLinesColumns))
  /\ pc' = "done"
  /\ UNCHANGED <<made, cache, built, log, src, df, cats, wkts>>

LocationNext ==
  \/ LocationConcat
  \/ LocationSort
  \/ LocationGroupBy
  \/ LocationLineWkt
  \/ LocationPointWkt
  \/ LocationKey
  \/ LocationReturn

SpecLocation == LocationInit /\ [][LocationNext]_vars


\* The day, persons and trips pipelines side by side: each run is one pipeline
\* on one input, from its concat to its return.
RulesInit == DayInit \/ PersonsInit \/ TripsInit

RulesNext == DayNext \/ PersonsNext \/ TripsNext

SpecRules == RulesInit /\ [][RulesNext]_vars

----------------------------------------------------------------------------
(* The pipelines that number their rows with np.arange *)

MaxDayKeyRows == 2   \* day rows in the two extracts together when the keys are followed

\* the day rows of the runs that follow the keys: told apart by their trip count
DayKeySdrtsRows == {Override(DayDefaults, [num_trips |-> n]) : n \in {0, 1, 2}}

DayKeyAtRows == {[f \in DayAtColumns |-> r[f]] : r \in DayKeySdrtsRows}

DayKeysInit ==
  /\ src \in Extracts(DayKeySdrtsRows, DayKeyAtRows, MaxDayKeyRows)
  /\ df = <<>>
  /\ cats = <<>>
  /\ pc = "day_concat"
  /\ lines = <<>>
  /\ points = <<>>
  /\ wkts = <<>>
  /\ NoReads

\* day, border_trips and location side by side: each run is one pipeline on
\* one input
KeysInit == DayKeysInit \/ BorderInit \/ LocationInit

KeysNext == DayNext \/ BorderNext \/ LocationNext

SpecKeys == KeysInit /\ [][KeysNext]_vars
----------------------------------------------------------------------------
(* The lru_cache of the table properties, and the loader main.py *)

MaxInstances == 2   \* SurveyData objects a client creates
MaxReads == 4       \* property reads of a client

\* a plausible variant: @lru_cache(maxsize=None), no entry is ever dropped: room
\* for every object a client creates
maxsize_None == MaxInstances

\* @lru_cache(maxsize=1)
maxsize == 1

\* the properties a client reads
ClientProperties == {"day", "households"}

\* the position of key among the entries of a cache, 0 when it has none; the
\* key of a property read is its one argument self, and a SurveyData object
\* hashes and compares by identity
Find(entries, key) ==
  IF \E j \in DOMAIN entries : entries[j].key = key
    THEN CHOOSE j \in DOMAIN entries : entries[j].key = key
    ELSE 0

\* a hit: the entry becomes the most recently used one
Touch(entries, j) ==
  SubSeq(entries, 1, j - 1) \o SubSeq(entries, j + 1, Len(entries)) \o <<entries[j]>>

\* a miss: the result is stored as the most recently used entry, and the
\* least recently used entry goes when the cache is over maxsize
Put(entries, key, value) ==
  LET all == Append(entries, [key |-> key, value |-> value])
  IN IF Len(all) > maxsize THEN Tail(all) ELSE all

\* instance.p, p one of the table properties: the lru_cache wrapper looks self
\* up; on a hit it returns the stored table, on a miss it runs the body and
\* stores and returns its result. A table is named by its property and the
\* number of the run of the body that built it
Get(p, i) ==
  LET j == Find(cache[p], i)
  IN IF j > 0
       THEN /\ cache' = [cache EXCEPT ![p] = Touch(@, j)]
            /\ built' = built
            /\ log' = Append(log, [property |-> p, instance |-> i,
                                   table |-> cache[p][j].value, hit |-> TRUE])
       ELSE /\ cache' = [cache EXCEPT ![p] = Put(@, i, built[p] + 1)]
            /\ built' = [built EXCEPT ![p] = @ + 1]
            /\ log' = Append(log, [property |-> p, instance |-> i,
                                   table |-> built[p] + 1, hit |-> FALSE])

\* a client of the module: it creates objects and reads properties in any order
ClientInit ==
  /\ pc = "client"
  /\ src = NoFrames
  /\ df = <<>>
  /\ cats = <<>>
  /\ lines = <<>>
  /\ points = <<>>
  /\ wkts = <<>>
  /\ NoReads

\* main.py run as a script
MainInit ==
  /\ pc = "main_1"
  /\ src = NoFrames
  /\ df = <<>>
  /\ cats = <<>>
  /\ lines = <<>>
  /\ points = <<>>
  /\ wkts = <<>>
  /\ NoReads

CacheInit == ClientInit \/ MainInit

\* SurveyData()
ClientNew ==
  /\ pc = "client"
  /\ made < MaxInstances
  /\ made' = made + 1
  /\ UNCHANGED <<pc, src, df, cats, lines, points, wkts, cache, built, log>>

\* instance.day or instance.households, on any object created so far
ClientRead ==
  /\ pc = "client"
  /\ Len(log) < MaxReads
  /\ \E p \in ClientProperties, i \in 1..made : Get(p, i)
  /\ UNCHANGED <<pc, src, df, cats, lines, points, wkts, made>>

\* statement k of main.py that loads a table: x = hhtbs2016Data.SurveyData().p,
\* a new object and one read of the property on it
MainLoad ==
  \E k \in DOMAIN MainTables :
    /\ pc = "main_" \o ToString(k)
    /\ made' = made + 1
    /\ Get(MainTables[k], made + 1)
    /\ pc' = IF k = Len(MainTables) THEN "main_done" ELSE "main_" \o ToString(k + 1)
    /\ UNCHANGED <<src, df, cats, lines, points, wkts>>

CacheNext == ClientNew \/ ClientRead \/ MainLoad

SpecCache == CacheInit /\ [][CacheNext]_vars

----------------------------------------------------------------------------
(* Claims about line_wkt *)

\* the positions of line at which a coordinate occurs for the first time
FirstIndices(line) ==
  {i \in DOMAIN line : \A j \in 1..(i - 1) : line[j] # line[i]}

\* the coordinates of line in the order of their first occurrence, obtained
\* by sorting the first positions
FirstOccurrences(line) ==
  LET I == FirstIndices(line)
      f == CHOOSE g \in [1..Cardinality(I) -> I] :
             \A a, b \in 1..Cardinality(I) : a < b => g[a] < g[b]
  IN [k \in 1..Cardinality(I) |-> line[f[k]]]

\* s can be obtained from t by deleting elements
IsSubsequence(s, t) ==
  \E g \in [DOMAIN s -> DOMAIN t] :
    /\ \A a, b \in DOMAIN s : a < b => g[a] < g[b]
    /\ \A a \in DOMAIN s : s[a] = t[g[a]]

NoRepeat(s) == \A a, b \in DOMAIN s : a # b => s[a] # s[b]

\* the line the last iteration worked on, when it was a non-empty one
LastLineDeduplicated ==
  /\ pc \in {"line_wkt", "done"}
  /\ Len(wkts) >= 1
  /\ LineNonEmpty(lines[Len(wkts)])

\* C4: the vertex list line_wkt builds has no repeated coordinate, is a
\* subsequence of the input line, holds every distinct input coordinate in
\* first-occurrence order, and is unchanged by a second removal; two lines
\* with the same first occurrences get the same geometry.
C4_DuplicateRemoval ==
  /\ LastLineDeduplicated =>
       LET line == lines[Len(wkts)]
       IN /\ NoRepeat(points)
          /\ IsSubsequence(points, line)
          /\ Range(points) = Range(line)
          /\ points = FirstOccurrences(line)
          /\ RemoveDuplicates(points) = points
  /\ \A i, j \in 1..Len(wkts) :
       FirstOccurrences(lines[i]) = FirstOccurrences(lines[j]) => wkts[i] = wkts[j]

\* C4 witness: a line with a non-adjacent repeat, (0,0),(1,1),(0,0), has been
\* encoded as the line through (0,0),(1,1), after an empty line
C4_Witness ==
  /\ pc = "done"
  /\ Len(lines) = 2
  /\ lines[1] = <<>>
  /\ lines[2] = << <<0, 0>>, <<1, 1>>, <<0, 0>> >>
  /\ points = << <<0, 0>>, <<1, 1>> >>
  /\ wkts[2].tag = "LINESTRING"
  /\ wkts[2].text = <<Transform(<<0, 0>>), Transform(<<1, 1>>)>>

\* C5: line_wkt gives one result per input line, in the same position: None
\* for an empty line, a point for one distinct coordinate, a line through the
\* distinct coordinates in order for two or more; it never raises.
C5_OneResultPerLine ==
  /\ pc # "raised"
  /\ Len(wkts) <= Len(lines)
  /\ pc = "done" => Len(wkts) = Len(lines)
  /\ \A i \in 1..Len(wkts) :
       LET n == Cardinality(Range(lines[i]))
       IN /\ n = 0 => wkts[i] = None
          /\ n = 1 => /\ wkts[i].tag = "POINT"
                      /\ wkts[i].text = <<Transform(lines[i][1])>>
          /\ n >= 2 => /\ wkts[i].tag = "LINESTRING"
                       /\ wkts[i].text = MapSeq(FirstOccurrences(lines[i]), Transform)

\* C5 witness: a call that returned for an empty line followed by a line
\* whose three vertices are one coordinate
C5_Witness ==
  /\ pc = "done"
  /\ Len(lines) = 2
  /\ lines[1] = <<>>
  /\ Len(lines[2]) = 3
  /\ Cardinality(Range(lines[2])) = 1
  /\ wkts[1] = None
  /\ wkts[2].tag = "POINT"

----------------------------------------------------------------------------
(* Claims about the Day table *)

\* the rows of the extracts in concatenation order, as read from disk
SourceRows == src.sdrts \o src.at

\* C1: in the Day output, number_trips > 0 gives made_trips = "Yes" and
\* number_trips = 0 gives made_trips = "No", whatever trips_yesno the source
\* row carried and whichever extract it came from.
C1_MadeTripsAgreesWithCount ==
  pc = "done" =>
    \A i \in DOMAIN df :
      /\ NumGt(df[i].number_trips, 0) => df[i].made_trips = "Yes"
      /\ NumEq(df[i].number_trips, 0) => df[i].made_trips = "No"

\* C1 witness: an AT row that reported "Yes" (code 1) with zero trips came out "No"
C1_Witness ==
  /\ pc = "done"
  /\ Len(src.at) = 1
  /\ src.at[1].trips_yesno = 1
  /\ src.at[1].num_trips = 0
  /\ df[1].made_trips = "No"


\* the free-text reason source row i carried; the AT extract has no such column
SourceReasonText(i) ==
  IF "notravel_other" \in DOMAIN SourceRows[i] THEN SourceRows[i].notravel_other ELSE NaN

\* C17: in the Day output, no_trips_reason_specify_other is "Not Applicable"
\* when neither reason is "Other reason"; when at least one is, it is "Missing"
\* if the source text was blank and the source text otherwise.
C17_OtherReasonText ==
  pc = "done" =>
    \A i \in DOMAIN df :
      LET other == \/ df[i].no_trips_reason_1 = "Other reason"
                   \/ df[i].no_trips_reason_2 = "Other reason"
          text == df[i].no_trips_reason_specify_other
      IN /\ ~other => text = NotApplicable
         /\ other /\ SourceReasonText(i) = NaN => text = Missing
         /\ other /\ SourceReasonText(i) # NaN => text = SourceReasonText(i)

\* the free text of row i of the concatenated frame: the AT rows carry the
\* back-filled "Not Applicable"
ConcatReasonText(i) ==
  IF "notravel_other" \in DOMAIN SourceRows[i] THEN SourceRows[i].notravel_other
  ELSE DayAtBackfill.notravel_other

\* C17 as amended: the three cases hold of the text the concatenated frame
\* carries, so an AT row, whose extract has no free-text column, comes out
\* "Not Applicable" whatever its two reasons are.
C17_OtherReasonTextAfterBackfill ==
  pc = "done" =>
    \A i \in DOMAIN df :
      LET other == \/ df[i].no_trips_reason_1 = "Other reason"
                   \/ df[i].no_trips_reason_2 = "Other reason"
          text == df[i].no_trips_reason_specify_other
      IN /\ ~other => text = NotApplicable
         /\ other /\ ConcatReasonText(i) = NaN => text = Missing
         /\ other /\ ConcatReasonText(i) # NaN => text = ConcatReasonText(i)
         /\ i > Len(src.sdrts) => text = NotApplicable

\* C17 witness: an AT row whose first reason is "Other reason" comes out
\* "Not Applicable", not "Missing"
C17_Witness ==
  /\ pc = "done"
  /\ Len(src.at) = 1
  /\ df[1].no_trips_reason_1 = "Other reason"
  /\ SourceReasonText(1) = NaN
  /\ df[1].no_trips_reason_specify_other = NotApplicable

\* the reason code source row i carried
SourceReason(i) ==
  IF "notravel" \in DOMAIN SourceRows[i] THEN SourceRows[i].notravel ELSE NA

\* C27: in the Day output, a blank reason for not traveling is "Missing" when
\* number_trips is 0 and "Not Applicable" when it is greater than 0, a reason
\* that was given is kept as recoded, and no_trips_reason_1 is not null on any
\* row whose number_trips is not null.
C27_BlankReasonByTripCount ==
  pc = "done" =>
    \A i \in DOMAIN df :
      LET r == df[i]
      IN /\ SourceReason(i) = NA /\ NumEq(r.number_trips, 0) => r.no_trips_reason_1 = Missing
         /\ SourceReason(i) = NA /\ NumGt(r.number_trips, 0) =>
              r.no_trips_reason_1 = NotApplicable
         /\ SourceReason(i) # NA =>
              r.no_trips_reason_1 = Recode(DayMappings.notravel, SourceReason(i))
         /\ r.number_trips # NA => r.no_trips_reason_1 # NaN

\* C27 witness: an SDRTS day without trips and without a reason came out with
\* no_trips_reason_1 "Missing"
C27_Witness ==
  /\ pc = "done"
  /\ Len(src.sdrts) = 1
  /\ src.sdrts[1].num_trips = 0
  /\ src.sdrts[1].notravel = NA
  /\ df[1].number_trips = 0
  /\ df[1].no_trips_reason_1 = Missing

\* the other cases of C27 happen: a day with trips and no reason, a day with a
\* reason, and a day whose trip count is null, which keeps the null reason
C27_TripsReached ==
  /\ pc = "done"
  /\ Len(src.sdrts) = 1
  /\ src.sdrts[1].num_trips = 1
  /\ src.sdrts[1].notravel = NA
  /\ df[1].no_trips_reason_1 = NotApplicable

C27_ReasonReached ==
  /\ pc = "done"
  /\ Len(src.sdrts) = 1
  /\ src.sdrts[1].num_trips = 0
  /\ src.sdrts[1].notravel = 2
  /\ df[1].no_trips_reason_1 = "Not scheduled to work/took day off"

C27_NoCountReached ==
  /\ pc = "done"
  /\ Len(src.sdrts) = 1
  /\ src.sdrts[1].num_trips = NA
  /\ df[1].number_trips = NA
  /\ df[1].no_trips_reason_1 = NaN
----------------------------------------------------------------------------
(* Claims about the Person table *)

\* the person rows of the extracts in concatenation order, as read from disk
SourcePersons == src.sdrts \o src.at

\* C3: in the Person output, a row whose age_category is "Under 5 years old"
\* or "5-15 years" has employment_status "Not Applicable", whatever employment
\* code, null included, the source row carried.
C3_ChildrenNotEmployed ==
  pc = "done" =>
    \A i \in DOMAIN df :
      df[i].age_category \in {"Under 5 years old", "5-15 years"} =>
        df[i].employment_status = NotApplicable

\* C3 witness: a 5-15 year old whose employment was left empty came out
\* "Not Applicable", not "Missing"
C3_Witness ==
  /\ pc = "done"
  /\ Len(SourcePersons) = 1
  /\ SourcePersons[1].age = 2
  /\ SourcePersons[1].employment = NA
  /\ df[1].age_category = "5-15 years"
  /\ df[1].employment_status = NotApplicable

\* source row r carries, in a field with a declared mapping, a code that is
\* neither a key of the mapping nor null
UnmappedCode(M, r) ==
  \E f \in DOMAIN M \cap DOMAIN r : r[f] # NA /\ r[f] \notin DOMAIN M[f]

\* C12: a person pipeline whose source holds a row with a code that its field's
\* mapping does not declare fails: it returns no table.
C12_UnmappedCodeFails ==
  (\E i \in DOMAIN SourcePersons : UnmappedCode(PersonsMappings, SourcePersons[i])) =>
    pc # "done"

\* what the recode loop does instead: the table is returned and the field of
\* the undeclared code is null in the row
C12_UnmappedCodeIsNull ==
  pc = "done" =>
    \A i \in DOMAIN df :
      (SourcePersons[i].age = 5 /\ SourcePersons[i].employment = 9) =>
        df[i].employment_status = NaN

\* the name of source column f in the Person output
PersonsOutputName(f) ==
  IF f \in DOMAIN PersonsRenameColumns THEN PersonsRenameColumns[f] ELSE f

\* C14: in the Person output, every recoded categorical field of a row whose
\* source codes are all declared codes or null holds a non-null value that is
\* a member of the field's category set, the fields the AT extract lacks
\* (back-filled with code 99) among them.
C14_CategoricalsNotNull ==
  pc = "done" =>
    \A i \in DOMAIN df :
      ~UnmappedCode(PersonsMappings, SourcePersons[i]) =>
        \A f \in DOMAIN PersonsMappings :
          PersonsOutputName(f) \in DOMAIN df[i] =>
            /\ df[i][PersonsOutputName(f)] # NaN
            /\ df[i][PersonsOutputName(f)] \in cats[f]

\* C14 witness: an adult of the AT extract, which has no smartphone columns,
\* whose employment was left empty came out with employment_status "Missing"
\* and the three smartphone fields "Not Applicable"
C14_Witness ==
  /\ pc = "done"
  /\ Len(src.at) = 1
  /\ "smartphone_type" \notin DOMAIN src.at[1]
  /\ src.at[1].age = 5
  /\ src.at[1].employment = NA
  /\ df[1].employment_status = Missing
  /\ df[1].smartphone_type = NotApplicable
  /\ df[1].smartphone_age = NotApplicable
  /\ df[1].smartphone_child = NotApplicable

\* the work and commute fields of the Person output that do not apply to a
\* person on active duty
ActiveDutyFields ==
  {"work_location_type", "occupation", "industry", "hours_worked", "commute_frequency",
   "commute_mode", "work_arrival_frequency", "work_parking_payment", "work_parking_cost_dk",
   "work_parking_ease", "telecommute_frequency", "commute_subsidy_none",
   "commute_subsidy_parking", "commute_subsidy_transit", "commute_subsidy_vanpool",
   "commute_subsidy_cash", "commute_subsidy_other", "commute_subsidy_specify"}

\* C15: in the Person output, a row whose military_status is one of the two
\* active-duty labels has every work and commute field "Not Applicable", and a
\* row whose employment_status is "Not currently employed" has military_status
\* "Not Applicable": the active-duty rule reads military after the last rule
\* that writes it.
C15_ActiveDutyAfterMilitary ==
  pc = "done" =>
    \A i \in DOMAIN df :
      /\ df[i].military_status \in {"Active duty within the San Diego region",
                                    "Active duty outside of the San Diego region"} =>
           \A f \in ActiveDutyFields : df[i][f] = NotApplicable
      /\ df[i].employment_status = "Not currently employed" =>
           df[i].military_status = NotApplicable

\* C15 witness: an employed adult on active duty outside the region, whose
\* source row answered the work questions, came out with them "Not Applicable"
C15_Witness ==
  /\ pc = "done"
  /\ Len(src.sdrts) = 1
  /\ src.sdrts[1].age = 5
  /\ src.sdrts[1].military = 3
  /\ src.sdrts[1].employment = 1
  /\ src.sdrts[1].hours_work = 1
  /\ df[1].military_status = "Active duty outside of the San Diego region"
  /\ df[1].hours_worked = NotApplicable
  /\ df[1].commute_mode = NotApplicable

\* C15, second witness: an adult who is not employed and whose source row
\* says active duty came out with military_status "Not Applicable"
C15_NotEmployedReached ==
  /\ pc = "done"
  /\ Len(src.sdrts) = 1
  /\ src.sdrts[1].age = 5
  /\ src.sdrts[1].employment = 4
  /\ df[1].employment_status = "Not currently employed"
  /\ df[1].military_status = NotApplicable


\* the commute fields the never-commutes statement writes, by their output names
CommuteFields ==
  {"commute_mode", "work_arrival_frequency", "work_parking_payment", "work_parking_cost_dk",
   "work_parking_ease", "commute_subsidy_none", "commute_subsidy_parking",
   "commute_subsidy_transit", "commute_subsidy_vanpool", "commute_subsidy_cash",
   "commute_subsidy_other", "commute_subsidy_specify"}

HomeOnly == "Work at home only (only telework or self-employed)"
DrivesForLiving == "Drive/Travel for a living (e.g., bus/truck driver, salesman)"

\* C21: in the Person output, a row whose work_location_type is the work at
\* home only or the drive for a living label has commute_frequency and every
\* commute field "Not Applicable"; a work at home only row has
\* telecommute_frequency "Not Applicable" too.
C21_NoCommuteFromWorkLocation ==
  pc = "done" =>
    \A i \in DOMAIN df :
      /\ df[i].work_location_type \in {HomeOnly, DrivesForLiving} =>
           /\ df[i].commute_frequency = NotApplicable
           /\ \A f \in CommuteFields : df[i][f] = NotApplicable
      /\ df[i].work_location_type = HomeOnly =>
           df[i].telecommute_frequency = NotApplicable

\* C21 witness: an SDRTS adult who drives for a living and answered the commute
\* questions came out with them "Not Applicable"
C21_Witness ==
  /\ pc = "done"
  /\ Len(src.sdrts) = 1
  /\ src.sdrts[1].job_type = 4
  /\ src.sdrts[1].commute_freq = 1
  /\ src.sdrts[1].commute_mode = 1
  /\ df[1].work_location_type = DrivesForLiving
  /\ df[1].commute_frequency = NotApplicable
  /\ df[1].commute_mode = NotApplicable

VehicleCommuteModes ==
  {"Drive alone", "Carpool with only family/household member(s)",
   "Carpool with at least one person not in household", "Motorcycle/moped/scooter"}

\* C22: in the Person output, commute_frequency "Never" or "Not Applicable"
\* gives commute_mode and work_arrival_frequency "Not Applicable", and a
\* commute_mode that is not a vehicle mode gives the three work parking fields
\* "Not Applicable".
C22_CommuteChain ==
  pc = "done" =>
    \A i \in DOMAIN df :
      /\ df[i].commute_frequency \in {"Never", NotApplicable} =>
           /\ df[i].commute_mode = NotApplicable
           /\ df[i].work_arrival_frequency = NotApplicable
      /\ df[i].commute_mode \notin VehicleCommuteModes =>
           /\ df[i].work_parking_payment = NotApplicable
           /\ df[i].work_parking_cost_dk = NotApplicable
           /\ df[i].work_parking_ease = NotApplicable

\* C22 witness: an SDRTS adult who never commutes and named a commute mode
\* came out with the mode and the parking fields "Not Applicable"
C22_Witness ==
  /\ pc = "done"
  /\ Len(src.sdrts) = 1
  /\ src.sdrts[1].commute_freq = 9
  /\ src.sdrts[1].commute_mode = 1
  /\ df[1].commute_frequency = "Never"
  /\ df[1].commute_mode = NotApplicable
  /\ df[1].work_parking_payment = NotApplicable

\* a walking commuter keeps the commute mode and loses the parking fields
C22_WalksReached ==
  /\ pc = "done"
  /\ \E i \in DOMAIN df :
       df[i].commute_mode = "Walk/jog/wheelchair" /\ df[i].work_parking_ease = NotApplicable

\* the source row of output row i left column f blank (or its extract does not
\* have the column)
Blank(i, f) == f \notin DOMAIN SourcePersons[i] \/ SourcePersons[i][f] = NaN

\* C26: in the Person output work_address and school_address are never null,
\* and "Not Applicable" comes before "Missing": a blank source work address
\* is "Not Applicable" when the person is under 16 or "Not currently employed"
\* and "Missing" otherwise; a blank source school address is "Not Applicable"
\* when school_type is "Missing" or "Not Applicable" and "Missing" otherwise.
C26_AddressesNotNull ==
  pc = "done" =>
    \A i \in DOMAIN df :
      LET r == df[i]
      IN /\ r.work_address # NaN
         /\ r.school_address # NaN
         /\ Blank(i, "work_address") =>
              r.work_address =
                IF \/ r.age_category \in {"Under 5 years old", "5-15 years"}
                   \/ r.employment_status = "Not currently employed"
                  THEN NotApplicable ELSE Missing
         /\ Blank(i, "mainschool_address") =>
              r.school_address =
                IF r.school_type \in {Missing, NotApplicable}
                  THEN NotApplicable ELSE Missing

\* C26 witness: an SDRTS child of 5 to 15 who left the work address blank came
\* out with work_address "Not Applicable"
C26_Witness ==
  /\ pc = "done"
  /\ Len(src.sdrts) = 1
  /\ src.sdrts[1].age = 2
  /\ src.sdrts[1].work_address = NaN
  /\ df[1].age_category = "5-15 years"
  /\ df[1].work_address = NotApplicable

\* the other cases of C26 happen: an employed adult, a person who is not
\* employed, a pupil and a person of unknown school type, each with the
\* address left blank
C26_EmployedReached ==
  /\ pc = "done"
  /\ Len(src.sdrts) = 1
  /\ src.sdrts[1].work_address = NaN
  /\ df[1].age_category = "25-34 years"
  /\ df[1].employment_status = "Employed full-time (paid) 35+ hours/week"
  /\ df[1].work_address = Missing

C26_NotEmployedReached ==
  /\ pc = "done"
  /\ Len(src.sdrts) = 1
  /\ src.sdrts[1].work_address = NaN
  /\ df[1].age_category = "25-34 years"
  /\ df[1].employment_status = "Not currently employed"
  /\ df[1].work_address = NotApplicable

C26_PupilReached ==
  /\ pc = "done"
  /\ Len(src.sdrts) = 1
  /\ src.sdrts[1].mainschool_address = NaN
  /\ df[1].school_type = "Kindergarten-Grade 5 (public or private)"
  /\ df[1].school_address = Missing

C26_NoSchoolTypeReached ==
  /\ pc = "done"
  /\ Len(src.sdrts) = 1
  /\ src.sdrts[1].mainschool_address = NaN
  /\ df[1].school_type = Missing
  /\ df[1].school_address = NotApplicable
----------------------------------------------------------------------------
(* Claims about the Trip table *)

\* the trip rows of the extracts in concatenation order, as read from disk
SourceTrips == src.sdrts \o src.at

\* the auto modes as the Trip table documentation lists them
AutoModeLabels ==
  {"Household vehicle " \o ToString(k) : k \in 1..7} \cup
  {"Other household vehicle", "Rental car", "Carshare", "Other auto", "Work car",
   "Friends car", "Taxi - Regular", "Taxi - Rideshare"}

\* none of the four modes of output row r is an auto mode
NoAutoMode(r) ==
  \A c \in {"mode_1", "mode_2", "mode_3", "mode_4"} : r[c] \notin AutoModeLabels

\* C2: in the Trip output, a row none of whose modes mode_1..mode_4 is an auto
\* mode has toll_road, toll_road_express, driver and parking_location all
\* "Not Applicable".
C2_NonAutoNotApplicable ==
  pc = "done" =>
    \A i \in DOMAIN df :
      NoAutoMode(df[i]) =>
        \A c \in {"toll_road", "toll_road_express", "driver", "parking_location"} :
          df[i][c] = NotApplicable

\* C2 witness: an online walk trip that answered the toll, driver and parking
\* questions came out with all four "Not Applicable"
C2_Witness ==
  /\ pc = "done"
  /\ Len(src.sdrts) = 1
  /\ src.sdrts[1].data_source = 2
  /\ src.sdrts[1].mode1 = 1
  /\ src.sdrts[1].toll_express = 1
  /\ src.sdrts[1].driver = 1
  /\ df[1].mode_1 = "Walk/jog/wheelchair"
  /\ df[1].toll_road_express = NotApplicable
  /\ df[1].driver = NotApplicable

\* output row r meets the weighting precondition
Weighted(r) == NumGe(r.number_household_survey_weekdays, 1)

\* travelers_household of output row r is one of the integers 1..10
CountedTravelers(r) == \E n \in 1..10 : r.travelers_household = ToString(n)

\* weight w times the traveler count n is 1
TimesIsOne(w, n) == Len(w) = 2 /\ w[1] * n = w[2]

\* the first half of C9 and of its amended form: an eligible row with a count
\* 1..10 has weight_trip x travelers_household = 1
C9_Divided(r) ==
  Weighted(r) /\ CountedTravelers(r) =>
    \A n \in 1..10 : r.travelers_household = ToString(n) => TimesIsOne(r.weight_trip, n)

\* C9 as stated: weight_trip is 1 / travelers_household when
\* number_household_survey_weekdays >= 1 and travelers_household is 1..10; when
\* travelers_household is outside 1..10 or the precondition fails, weight_trip
\* is unset.
C9_WeightTripUnsetOutsideRange ==
  pc = "done" =>
    \A i \in DOMAIN df :
      /\ C9_Divided(df[i])
      /\ ~(Weighted(df[i]) /\ CountedTravelers(df[i])) => df[i].weight_trip = NoWeight

\* C9 amended: weight_trip is 1 / travelers_household when the precondition
\* holds and travelers_household is 1..10; it is 1 when the precondition holds
\* and travelers_household is outside 1..10; it is unset only when the
\* precondition fails.
C9_WeightTripOneOutsideRange ==
  pc = "done" =>
    \A i \in DOMAIN df :
      /\ C9_Divided(df[i])
      /\ Weighted(df[i]) /\ ~CountedTravelers(df[i]) => df[i].weight_trip = Ratio(1, 1)
      /\ ~Weighted(df[i]) => df[i].weight_trip = NoWeight

\* C9 witness: an eligible trip whose traveler count is a non-response came out
\* with weight_trip 1
C9_Witness ==
  /\ pc = "done"
  /\ Len(src.sdrts) = 1
  /\ src.sdrts[1].h_complete_weekdays = 1
  /\ src.sdrts[1].travelers_hh = -9998
  /\ df[1].travelers_household = "Participant Non-response"
  /\ df[1].weight_trip = Ratio(1, 1)

\* C10: in the Trip output, weight_trip and weight_person_trip are set only on
\* rows with number_household_survey_weekdays >= 1; a row where it is null or
\* below 1, every AT row among them, has both unset; weight_person_trip is 1 on
\* every row that meets the precondition.
C10_WeightsNeedCompleteWeekday ==
  pc = "done" =>
    /\ \A i \in DOMAIN df :
         /\ (df[i].weight_trip # NoWeight \/ df[i].weight_person_trip # NoWeight) =>
              Weighted(df[i])
         /\ ~Weighted(df[i]) =>
              df[i].weight_trip = NoWeight /\ df[i].weight_person_trip = NoWeight
         /\ Weighted(df[i]) => df[i].weight_person_trip = Ratio(1, 1)
    /\ \A i \in (Len(src.sdrts) + 1)..Len(df) :
         df[i].weight_trip = NoWeight /\ df[i].weight_person_trip = NoWeight

\* C10 witness: an AT trip with two household travelers came out with both
\* weights unset
C10_Witness ==
  /\ pc = "done"
  /\ Len(src.at) = 1
  /\ src.at[1].travelers_hh = 2
  /\ df[1].number_household_survey_weekdays = NA
  /\ df[1].weight_trip = NoWeight
  /\ df[1].weight_person_trip = NoWeight

\* the four mode columns of the Trip output
ModeColumns == {"mode_1", "mode_2", "mode_3", "mode_4"}

\* none of the four modes of output row r is one of the labels
NoModeIn(r, labels) == \A c \in ModeColumns : r[c] \notin labels

\* the rail modes as the Trip table documentation lists them
RailModeLabels ==
  {"Rail - Light", "Rail - Intercity", "Rail - Other", "San Diego Coaster Line", "Subway"}

\* the transit modes: the vanpool, every bus, subway, ferry and rail mode
TransitModeLabels ==
  {"Vanpool", "Bus", "School bus", "Intercity bus", "Shuttle bus", "Paratransit", "Other bus",
   "Subway", "Ferry or water taxi", "University bus or shuttle", "Rail - Light",
   "Rail - Intercity", "Rail - Other", "Express bus/Rapid", "San Diego Coaster Line"}

\* C11: in the Trip output, a row with no taxi mode has taxi_pay_type "Not
\* Applicable", a row with no bus mode has bus_pay_type "Not Applicable", a row
\* with no rail mode (Rail - Light, Rail - Intercity, Rail - Other, San Diego
\* Coaster Line, Subway) has rail_pay_type "Not Applicable", a row with no
\* "Ferry or water taxi" mode has ferry_pay_type "Not Applicable", and a row
\* with no transit mode has mode_transit_access and mode_transit_egress "Not
\* Applicable".
C11_FareNotApplicable ==
  pc = "done" =>
    \A i \in DOMAIN df :
      LET r == df[i]
      IN /\ NoModeIn(r, {"Taxi - Regular", "Taxi - Rideshare"}) =>
              r.taxi_pay_type = NotApplicable
         /\ NoModeIn(r, {"Bus", "Intercity bus", "Express bus/Rapid"}) =>
              r.bus_pay_type = NotApplicable
         /\ NoModeIn(r, RailModeLabels) => r.rail_pay_type = NotApplicable
         /\ NoModeIn(r, {"Ferry or water taxi"}) => r.ferry_pay_type = NotApplicable
         /\ NoModeIn(r, TransitModeLabels) =>
              /\ r.mode_transit_access = NotApplicable
              /\ r.mode_transit_egress = NotApplicable

\* the parts of C11 other than the rail one
C11_OtherFares ==
  pc = "done" =>
    \A i \in DOMAIN df :
      LET r == df[i]
      IN /\ NoModeIn(r, {"Taxi - Regular", "Taxi - Rideshare"}) =>
              r.taxi_pay_type = NotApplicable
         /\ NoModeIn(r, {"Bus", "Intercity bus", "Express bus/Rapid"}) =>
              r.bus_pay_type = NotApplicable
         /\ NoModeIn(r, {"Ferry or water taxi"}) => r.ferry_pay_type = NotApplicable
         /\ NoModeIn(r, TransitModeLabels) =>
              /\ r.mode_transit_access = NotApplicable
              /\ r.mode_transit_egress = NotApplicable


\* the airfare answers that mean the fare was paid
PaidAirfare == {"Personally paid the airfare cost", "Employer paid 100%"}

\* C23: in the Trip output, a row whose airplane_pay_type is "Personally paid
\* the airfare cost" or "Employer paid 100%" keeps its recoded
\* airplane_cost_dk ("No", "Yes" or "Missing"); a row with any other
\* airplane_pay_type has airplane_cost_dk "Not Applicable".
C23_PaidAirfareKeepsCostDk ==
  pc = "done" =>
    \A i \in DOMAIN df :
      IF df[i].airplane_pay_type \in PaidAirfare
        THEN df[i].airplane_cost_dk =
               Recode(TripsMappings.airfare_cost_dk, SourceTrips[i].airfare_cost_dk)
        ELSE df[i].airplane_cost_dk = NotApplicable

\* what the statement at 4373-4375 does instead: it tests the taxi answer,
\* which is never one of the two airfare labels, so every row of the output has
\* airplane_cost_dk "Not Applicable"
C23_CostDkNotApplicableOnEveryRow ==
  pc = "done" => \A i \in DOMAIN df : df[i].airplane_cost_dk = NotApplicable

\* an airplane trip whose fare the traveler paid, and which answered the
\* cost question, came out with airplane_cost_dk "Not Applicable"
C23_PaidAirfareReached ==
  /\ pc = "done"
  /\ Len(src.sdrts) = 1
  /\ src.sdrts[1].mode1 = 31
  /\ src.sdrts[1].airtype = 1
  /\ src.sdrts[1].airfare_cost_dk = 0
  /\ df[1].mode_1 = "Airplane"
  /\ df[1].airplane_pay_type = "Personally paid the airfare cost"
  /\ df[1].airplane_cost_dk = NotApplicable

\* output row i has the recoded source answers in mode_transit_access and
\* mode_transit_egress
KeepsTransitAnswers(i) ==
  /\ df[i].mode_transit_access =
       Recode(TripsMappings.transit_access, SourceTrips[i].transit_access)
  /\ df[i].mode_transit_egress =
       Recode(TripsMappings.transit_egress, SourceTrips[i].transit_egress)

\* C24: the transit access/egress rule of the Trip pipeline forces "Not
\* Applicable" only when none of the four modes is a transit mode, and
\* "Vanpool" and "Bus" are transit modes, each as its own label: an Online
\* trip one of whose modes is a transit mode, such as one with mode_1 "Bus" (or
\* "Vanpool") and no other mode, keeps its recoded mode_transit_access and
\* mode_transit_egress.
C24_BusAndVanpoolKeepTransitAnswers ==
  pc = "done" =>
    \A i \in DOMAIN df :
      df[i].data_source = "Online" /\ ~NoModeIn(df[i], TransitModeLabels) =>
        KeepsTransitAnswers(i)

\* what the statement at 4268-4289 does: its list has the single label
\* "VanpoolBus" where the two labels are meant, so an Online trip keeps its
\* answers when one of its modes is another transit mode, and a trip whose
\* only transit modes are "Bus" or "Vanpool" has both "Not Applicable"
C24_BusAndVanpoolNotApplicable ==
  pc = "done" =>
    \A i \in DOMAIN df :
      /\ df[i].data_source = "Online" /\ ~NoModeIn(df[i], TransitModeLabels \ {"Bus", "Vanpool"}) =>
           KeepsTransitAnswers(i)
      /\ NoModeIn(df[i], TransitModeLabels \ {"Bus", "Vanpool"}) =>
           /\ df[i].mode_transit_access = NotApplicable
           /\ df[i].mode_transit_egress = NotApplicable

\* an Online trip by bus and no other mode, which answered both questions,
\* came out with both "Not Applicable"
C24_BusOnlyReached ==
  /\ pc = "done"
  /\ Len(src.sdrts) = 1
  /\ src.sdrts[1].data_source = 2
  /\ src.sdrts[1].mode1 = 23
  /\ src.sdrts[1].mode4 = NA
  /\ src.sdrts[1].transit_access = 1
  /\ df[1].data_source = "Online"
  /\ df[1].mode_1 = "Bus"
  /\ df[1].mode_4 = NotApplicable
  /\ df[1].mode_transit_access = NotApplicable
  /\ df[1].mode_transit_egress = NotApplicable

\* the parking locations where parking can cost money
PaidParkingLocations ==
  {"Someone elses driveway", "Parking lot/garage", "On street parking", "Park & Ride lot"}

\* the auto modes other than the two taxis
AutoNonTaxiModeLabels == AutoModeLabels \ {"Taxi - Regular", "Taxi - Rideshare"}

\* C25: in the Trip output, a row whose parking_location is not one of "Someone
\* elses driveway", "Parking lot/garage", "On street parking", "Park & Ride lot"
\* has parking_pay_type and parking_cost_dk "Not Applicable"; a row whose
\* parking_location is not "Park & Ride lot" has parkride_lot and parkride_city
\* "Not Applicable"; hence a row none of whose modes is a non-taxi auto mode
\* has parking_location, parking_pay_type, parking_cost_dk, parkride_lot and
\* parkride_city all "Not Applicable".
C25_ParkingChain ==
  pc = "done" =>
    \A i \in DOMAIN df :
      LET r == df[i]
      IN /\ r.parking_location \notin PaidParkingLocations =>
              /\ r.parking_pay_type = NotApplicable
              /\ r.parking_cost_dk = NotApplicable
         /\ r.parking_location # "Park & Ride lot" =>
              /\ r.parkride_lot = NotApplicable
              /\ r.parkride_city = NotApplicable
         /\ NoModeIn(r, AutoNonTaxiModeLabels) =>
              \A c \in {"parking_location", "parking_pay_type", "parking_cost_dk",
                        "parkride_lot", "parkride_city"} : r[c] = NotApplicable

\* C25 witness: an Online trip by household vehicle that parked in the own
\* driveway and answered the payment, cost and Park & Ride questions came out
\* with all four "Not Applicable"
C25_Witness ==
  /\ pc = "done"
  /\ Len(src.sdrts) = 1
  /\ src.sdrts[1].parklocation = 1
  /\ src.sdrts[1].parktype = 3
  /\ src.sdrts[1].park_cost_dk = 1
  /\ src.sdrts[1].parkride_lot = 1
  /\ df[1].mode_1 = "Household vehicle 1"
  /\ df[1].parking_location = "My own driveway/garage"
  /\ df[1].parking_pay_type = NotApplicable
  /\ df[1].parking_cost_dk = NotApplicable
  /\ df[1].parkride_lot = NotApplicable
  /\ df[1].parkride_city = NotApplicable

\* the other cases of C25 happen: a trip that paid in a parking lot keeps its
\* payment answers, a trip that parked in a Park & Ride lot keeps the lot, and
\* a walk trip that answered all the parking questions has none of them left
C25_PaidLotReached ==
  /\ pc = "done"
  /\ Len(src.sdrts) = 1
  /\ df[1].parking_location = "Parking lot/garage"
  /\ df[1].parking_pay_type = "Paid via cash, credit card, or ticket(s)"
  /\ df[1].parking_cost_dk = "Yes"

C25_ParkAndRideReached ==
  /\ pc = "done"
  /\ Len(src.sdrts) = 1
  /\ df[1].parking_location = "Park & Ride lot"
  /\ df[1].parkride_lot = "Lot #16 Poway Rd at Sabre Springs Pkwy"
  /\ df[1].parkride_city = "Bonsall"

C25_WalkReached ==
  /\ pc = "done"
  /\ Len(src.sdrts) = 1
  /\ src.sdrts[1].mode1 = 1
  /\ src.sdrts[1].mode2 = NA
  /\ src.sdrts[1].parklocation = 3
  /\ src.sdrts[1].parktype = 1
  /\ df[1].mode_1 = "Walk/jog/wheelchair"
  /\ df[1].parking_location = NotApplicable
  /\ df[1].parking_pay_type = NotApplicable
  /\ df[1].parkride_lot = NotApplicable
----------------------------------------------------------------------------
(* Claims about the Vehicle table *)

\* the (household_id, vehicle_number) pair of an output row
OutputPair(r) == <<r.household_id, r.vehicle_number>>

\* the number of distinct pairs that appear in the rows before row i
PairsSeenBefore(frame, i) ==
  Cardinality({OutputPair(frame[j]) : j \in 1..(i - 1)} \ {OutputPair(frame[i])})

\* C6 as stated: vehicle_id numbers the distinct pairs in the order they are
\* first seen in the concatenated rows.
C6_FirstSeenOrder ==
  pc = "done" =>
    \A i \in DOMAIN df :
      (\A j \in 1..(i - 1) : OutputPair(df[j]) # OutputPair(df[i])) =>
        df[i].vehicle_id = PairsSeenBefore(df, i) + 1

\* C6 amended: vehicle_id numbers the distinct pairs in ascending order of
\* (household_id, vehicle_number): rows of one pair share an id, a smaller pair
\* has a smaller id, and the ids used are 1..k for k distinct pairs, whatever
\* the order of the rows.
C6_SortedKeyOrder ==
  pc = "done" =>
    /\ \A i, j \in DOMAIN df :
         /\ OutputPair(df[i]) = OutputPair(df[j]) => df[i].vehicle_id = df[j].vehicle_id
         /\ KeyLess(OutputPair(df[i]), OutputPair(df[j])) =>
              df[i].vehicle_id < df[j].vehicle_id
    /\ {df[i].vehicle_id : i \in DOMAIN df} =
         1..Cardinality({OutputPair(df[i]) : i \in DOMAIN df})

\* C6 witness: the pairs arrive as (2,1) then (1,1) and get the ids 2 and 1
C6_Witness ==
  /\ pc = "done"
  /\ Len(df) = 2
  /\ OutputPair(df[1]) = <<2, 1>>
  /\ OutputPair(df[2]) = <<1, 1>>
  /\ df[1].vehicle_id = 2
  /\ df[2].vehicle_id = 1


\* C28: in the Vehicle output, two rows have the same vehicle_id exactly when
\* they have the same (household_id, vehicle_number), and the set of
\* vehicle_id values is exactly 1..k, k the number of distinct pairs.
C28_VehicleIdNumbersThePairs ==
  pc = "done" =>
    /\ \A i, j \in DOMAIN df :
         df[i].vehicle_id = df[j].vehicle_id <=> OutputPair(df[i]) = OutputPair(df[j])
    /\ {df[i].vehicle_id : i \in DOMAIN df} =
         1..Cardinality({OutputPair(df[i]) : i \in DOMAIN df})

\* C28 witness: three rows, two of them the same vehicle reported in both
\* extracts and the third another vehicle of the same household, came out with
\* the ids 1, 2, 1
C28_Witness ==
  /\ pc = "done"
  /\ Len(src.sdrts) = 2
  /\ Len(src.at) = 1
  /\ OutputPair(df[1]) = <<1, 1>>
  /\ OutputPair(df[2]) = <<1, 2>>
  /\ OutputPair(df[3]) = <<1, 1>>
  /\ df[1].vehicle_id = 1
  /\ df[2].vehicle_id = 2
  /\ df[3].vehicle_id = 1
----------------------------------------------------------------------------
(* Claims about the border-trip table *)

\* the wide household rows in concatenation order, as read from disk
WideRows == src.sdrts \o src.at

\* slot j of wide row w has no field
SlotEmpty(w, j) == \A s \in BorderStubs : w[WideColumn(s, j)] = NA
\* every field of slot j of wide row w carries a code of its mapping
SlotMapped(w, j) ==
  \A s \in BorderStubs : w[WideColumn(s, j)] \in DOMAIN BorderTripsMappings[s]

\* the output has a row for slot j of wide row w
InOutput(w, j) ==
  \E i \in DOMAIN df : df[i].household_id = w.hhid /\ df[i].trip_id = j

\* every populated field of slot j of wide row w carries a code of its mapping
SlotCodesMapped(w, j) ==
  \A s \in BorderStubs :
    w[WideColumn(s, j)] = NA \/ w[WideColumn(s, j)] \in DOMAIN BorderTripsMappings[s]

\* C7: an occurrence (household, slot) is dropped if and only if all its five
\* fields are empty; an occurrence with a populated and an empty field is kept.
C7_DroppedOnlyWhenAllEmpty ==
  pc = "done" =>
    \A k \in DOMAIN WideRows : \A j \in BorderSuffixes :
      SlotCodesMapped(WideRows[k], j) =>
        (~InOutput(WideRows[k], j) <=> SlotEmpty(WideRows[k], j))

\* C8: a household whose wide record has only slot 2 populated, with mapped
\* codes in all five fields, yields exactly one output row, with trip_id 2 and
\* the household's id.
C8_OnlySlotTwo ==
  pc = "done" =>
    \A k \in DOMAIN WideRows :
      LET w == WideRows[k]
      IN /\ SlotMapped(w, 2)
         /\ \A j \in BorderSuffixes \ {2} : SlotEmpty(w, j)
         => /\ Cardinality({i \in DOMAIN df : df[i].household_id = w.hhid}) = 1
            /\ \A i \in DOMAIN df : df[i].household_id = w.hhid =>
                 /\ df[i].trip_id = 2
                 /\ \A s \in BorderStubs :
                      df[i][BorderRenameColumns[s]] =
                        BorderTripsMappings[s][w[WideColumn(s, 2)]]

\* C8 witness: two households, the second with only slot 2 populated; its one
\* output row follows the first household's slot-1 row
C8_Witness ==
  /\ pc = "done"
  /\ Len(WideRows) = 2
  /\ SlotMapped(WideRows[1], 1)
  /\ SlotMapped(WideRows[2], 2)
  /\ \A j \in BorderSuffixes \ {2} : SlotEmpty(WideRows[2], j)
  /\ \E i \in DOMAIN df : df[i].household_id = WideRows[2].hhid /\ df[i].trip_id = 2

----------------------------------------------------------------------------
(* Claims about the Household table *)

\* C13: every returned Household table has each household_id exactly once; a
\* households pipeline whose extracts hold the same hhid twice does not return.
C13_HouseholdIdUnique ==
  pc = "done" =>
    \A i, j \in DOMAIN df : df[i].household_id = df[j].household_id => i = j

\* what pd.concat does instead: every source row is returned, in source order,
\* with its hhid
C13_EverySourceRowReturned ==
  pc = "done" =>
    /\ Len(df) = Len(src.sdrts) + Len(src.at)
    /\ \A i \in DOMAIN df : df[i].household_id = (src.sdrts \o src.at)[i].hhid

----------------------------------------------------------------------------
(* Claims about the Intercept table *)

\* the label the recode loop gives source column f of intercept row i
InterceptLabel(i, f) == Recode(InterceptMappings[f], src.at[i][f])

\* primary if it is an answer, the secondary otherwise, stated on the labels
\* of the source row
VisitOf(i, primary, secondary) ==
  IF InterceptLabel(i, primary) = Missing \/ InterceptLabel(i, primary) = NotApplicable
  THEN InterceptLabel(i, secondary)
  ELSE InterceptLabel(i, primary)

\* C18: in the Intercept output, visit_work is the label of work_int_1_2 when
\* work_int_1_1 is "Missing" or "Not Applicable" and the label of work_int_1_1
\* otherwise, visit_school likewise from school_int_1_1 and school_int_1_2; a
\* result is one of the two sentinels only when both fields are.
C18_VisitFallsBack ==
  pc = "done" =>
    \A i \in DOMAIN df :
      /\ df[i].visit_work = VisitOf(i, "work_int_1_1", "work_int_1_2")
      /\ df[i].visit_school = VisitOf(i, "school_int_1_1", "school_int_1_2")
      /\ df[i].visit_work \in {Missing, NotApplicable} =>
           /\ InterceptLabel(i, "work_int_1_1") \in {Missing, NotApplicable}
           /\ InterceptLabel(i, "work_int_1_2") \in {Missing, NotApplicable}
      /\ df[i].visit_school \in {Missing, NotApplicable} =>
           /\ InterceptLabel(i, "school_int_1_1") \in {Missing, NotApplicable}
           /\ InterceptLabel(i, "school_int_1_2") \in {Missing, NotApplicable}

\* C18 witness: the first work question was not applicable and the second
\* was answered Yes
C18_Witness ==
  /\ pc = "done"
  /\ Len(df) = 1
  /\ src.at[1].work_int_1_1 = 3
  /\ src.at[1].work_int_1_2 = 1
  /\ df[1].visit_work = "Yes"
----------------------------------------------------------------------------
(* Claims about the location tables *)

\* the trip ids of the source rows that form a path
PathKeys == {SourceRows[i].tripid : i \in DOMAIN SourceRows} \ {NA}

\* the source rows of trip k, by their position in the concatenation
KeyRows(k) == {i \in DOMAIN SourceRows : SourceRows[i].tripid = k}

\* the projected place of source row i
Vertex(i) == Transform(<<SourceRows[i].lng, SourceRows[i].lat>>)

\* the least element of a non-empty set of numbers
Least(S) == CHOOSE x \in S : \A y \in S : x <= y

\* the earliest time a point of trip k was collected at vertex v
FirstTime(k, v) ==
  Least({SourceRows[i].collected_at : i \in {n \in KeyRows(k) : Vertex(n) = v}})

\* the first source row of trip k collected at vertex v at that earliest time
FirstRow(k, v) ==
  Least({i \in KeyRows(k) : Vertex(i) = v /\ SourceRows[i].collected_at = FirstTime(k, v)})

\* one path row per trip id, and the path of a trip visits every place of its
\* points once, in the order of the earliest time each was collected
PathsInTimeOrder ==
  /\ Len(lines) = Cardinality(PathKeys)
  /\ {lines[j].trip_id_location : j \in DOMAIN lines} = PathKeys
  /\ \A j \in DOMAIN lines :
       LET k == lines[j].trip_id_location
           text == lines[j].shape.text
       IN /\ Range(text) = {Vertex(i) : i \in KeyRows(k)}
          /\ Cardinality(Range(text)) = Len(text)
          /\ \A a, b \in DOMAIN text :
               a < b => FirstTime(k, text[a]) <= FirstTime(k, text[b])

\* the paths location() returns for the concatenated rows `frame`
PathsOf(frame) ==
  MapSeq(GroupBy(SortValues(frame)),
         LAMBDA r : [trip_id_location |-> r.tripid, shape |-> LineWktOf(r.coordinates)])

\* the orders the source rows can be given in
RowOrders ==
  {p \in [DOMAIN SourceRows -> DOMAIN SourceRows] :
     \A i, j \in DOMAIN SourceRows : p[i] = p[j] => i = j}

\* no two points of a trip were collected at the same time at different places
NoTies ==
  \A i, j \in DOMAIN SourceRows :
    /\ SourceRows[i].tripid = SourceRows[j].tripid
    /\ SourceRows[i].collected_at = SourceRows[j].collected_at
    => Vertex(i) = Vertex(j)

\* C19: the path of each trip-location key visits its points in non-decreasing
\* collected_at order with duplicate places collapsed to the first occurrence,
\* there is one path row per distinct key, and the order of the source rows
\* does not matter.
C19_PathIgnoresRowOrder ==
  pc = "done" =>
    /\ PathsInTimeOrder
    /\ \A p \in RowOrders : PathsOf([i \in DOMAIN SourceRows |-> SourceRows[p[i]]]) = lines

\* C19 as amended: as above, but places first collected at the same time are
\* visited in the order of the concatenated rows, and the order of the source
\* rows does not matter only when a trip has no such tie.
C19_PathInTimeThenRowOrder ==
  pc = "done" =>
    /\ PathsInTimeOrder
    /\ \A j \in DOMAIN lines :
         LET k == lines[j].trip_id_location
             text == lines[j].shape.text
         IN \A a, b \in DOMAIN text :
              a < b /\ FirstTime(k, text[a]) = FirstTime(k, text[b])
                => FirstRow(k, text[a]) < FirstRow(k, text[b])
    /\ NoTies =>
         \A p \in RowOrders : PathsOf([i \in DOMAIN SourceRows |-> SourceRows[p[i]]]) = lines

\* C19 witness: three points of one trip, the later one read first and the
\* place of the earlier one collected again; the path starts at the earlier
\* place and visits it once
C19_Witness ==
  /\ pc = "done"
  /\ Len(SourceRows) = 3
  /\ \A i \in 1..3 : SourceRows[i].tripid = 1
  /\ SourceRows[1].collected_at = 2
  /\ SourceRows[2].collected_at = 1
  /\ SourceRows[3].collected_at = 2
  /\ Vertex(1) # Vertex(2)
  /\ Vertex(3) = Vertex(2)
  /\ Len(lines) = 1
  /\ lines[1].shape.text = <<Vertex(2), Vertex(1)>>

\* the statements between the recode loop and the return are running or done
InRules ==
  pc \notin {"day_concat", "day_recode", "persons_concat", "persons_recode",
             "trips_concat", "trips_recode", "done", "failed"}

\* C16: in the day, persons and trips pipelines no statement of the manual
\* recodes fails on a label outside a column's categories, and every value a
\* categorical column holds while they run is null or one of its categories.
C16_RuleLabelsInCategories ==
  /\ pc # "failed"
  /\ InRules =>
       \A i \in DOMAIN df : \A f \in DOMAIN cats \cap DOMAIN df[i] :
         df[i][f] \in cats[f] \cup {NaN}

\* a day row whose start and end locations were filled by the rules with labels
\* the recode loop or add_categories had declared
C16_Witness ==
  /\ pc = "day_key"
  /\ \E i \in DOMAIN df :
       /\ df[i].loc_start = Missing /\ df[i].loc_end = Missing
       /\ df[i].notravel = NotApplicable

\* the rules of persons, or of trips, are running: control is past the recode
\* loop and the frame has the source column names
InPersonsRules == InRules /\ df # <<>> /\ "age" \in DOMAIN df[1]
InTripsRules == InRules /\ df # <<>> /\ "mode1" \in DOMAIN df[1]

\* the name column f has after the step: the return statement renames
NameAfter(ren, f) == IF pc' = "done" /\ f \in DOMAIN ren THEN ren[f] ELSE f

\* one step of a rule sequence: a categorical field of a row keeps its value
\* or becomes "Not Applicable", so a "Not Applicable" stays; the identifiers ids
\* of the row and the number of rows are unchanged
RuleStepMonotone(ren, ids) ==
  /\ Len(df') = Len(df)
  /\ \A i \in DOMAIN df :
       /\ \A f \in DOMAIN cats \cap DOMAIN df[i] :
            NameAfter(ren, f) \in DOMAIN df'[i] =>
              df'[i][NameAfter(ren, f)] \in {df[i][f], NotApplicable}
       /\ \A f \in ids :
            /\ NameAfter(ren, f) \in DOMAIN df'[i]
            /\ df'[i][NameAfter(ren, f)] = df[i][f]

\* the identifiers of a persons row and of a trips row, by their source names:
\* the row's own key and its foreign keys, for a person the number within the
\* household, and for a trip the keys that link it to another trip and to its
\* GPS path
PersonsIdentifiers == {"personid", "hhid", "pernum"}
TripsIdentifiers == {"tripid", "tripid_linked", "location_tripid", "personid", "hhid"}

\* control is at the statement of trips that writes location_tripid:
\* df.loc[df.data_source == "Online", "location_tripid"] = int(0)
AtOnlineLocationStatement ==
  \E k \in DOMAIN TripsStatements :
    /\ TripsStatements[k].cols = {"location_tripid"}
    /\ pc = "trips_statement_" \o ToString(k)

\* one step of the trips rules on the key to the location table: the statement
\* that writes it makes it 0 on every Online row and leaves it on every other
\* row, and no other step changes it
LocationKeyStep ==
  \A i \in DOMAIN df :
    /\ NameAfter(TripsRenameColumns, "location_tripid") \in DOMAIN df'[i]
    /\ df'[i][NameAfter(TripsRenameColumns, "location_tripid")] =
         IF AtOnlineLocationStatement /\ df[i].data_source = "Online"
         THEN 0 ELSE df[i].location_tripid

\* C29 as stated: in the rule sequences of persons and trips a categorical
\* field that is "Not Applicable" after some step stays so, and no step changes
\* any identifier of a row or the number of rows. It fails: trips sets
\* location_tripid to 0 on Online rows.
C29_NoRuleWritesAnIdentifier ==
  [][/\ InPersonsRules => RuleStepMonotone(PersonsRenameColumns, PersonsIdentifiers)
     /\ InTripsRules => RuleStepMonotone(TripsRenameColumns, TripsIdentifiers)]_vars

\* C29: in the rule sequences of persons and trips every step assigns only
\* "Not Applicable" to a categorical field, so a categorical field of a row
\* that is "Not Applicable" after some step is "Not Applicable" after every
\* later step and in the output; no step changes the number of rows; and no
\* step changes an identifier of a row, except the one statement of trips that
\* sets trip_id_location to 0 on every Online row and leaves it on every other
\* row.
C29_RulesMonotone ==
  [][/\ InPersonsRules => RuleStepMonotone(PersonsRenameColumns, PersonsIdentifiers)
     /\ InTripsRules =>
          /\ RuleStepMonotone(TripsRenameColumns,
                              TripsIdentifiers \ {"location_tripid"})
          /\ LocationKeyStep]_vars

\* C29 witness: the rules of trips have all run on an Online walk trip that had
\* a location key and answered the driver question; the driver and parking
\* fields are "Not Applicable", the row's own keys are the source's, and the key
\* to the location table is 0
C29_Witness ==
  /\ pc = "trips_strip_1"
  /\ Len(src.sdrts) = 1
  /\ Len(df) = 1
  /\ src.sdrts[1].data_source = 2
  /\ src.sdrts[1].mode1 = 1
  /\ src.sdrts[1].driver = 1
  /\ src.sdrts[1].location_tripid = 1
  /\ df[1].mode1 = "Walk/jog/wheelchair"
  /\ df[1].driver = NotApplicable
  /\ df[1].parktype = NotApplicable
  /\ df[1].tripid = src.sdrts[1].tripid
  /\ df[1].tripid_linked = src.sdrts[1].tripid_linked
  /\ df[1].location_tripid = 0

\* the same for persons: the rules have all run on an SDRTS child of 5 to 15
\* who answered the commute questions; the first rule made commute_freq and
\* commute_mode "Not Applicable", the later rules that write them left them so
C29_PersonsReached ==
  /\ pc = "persons_shape_1"
  /\ Len(src.sdrts) = 1
  /\ src.sdrts[1].age = 2
  /\ src.sdrts[1].commute_freq = 1
  /\ src.sdrts[1].commute_mode = 1
  /\ df[1].age = "5-15 years"
  /\ df[1].commute_freq = NotApplicable
  /\ df[1].commute_mode = NotApplicable
  /\ df[1].personid = src.sdrts[1].personid
  /\ df[1].pernum = src.sdrts[1].pernum

\* an rMove trip after the rules: its key to the location table is the source's
C29_RMoveKeyReached ==
  /\ pc = "trips_strip_1"
  /\ Len(src.sdrts) = 1
  /\ Len(df) = 1
  /\ src.sdrts[1].data_source = 1
  /\ df[1].data_source = "rMove"
  /\ df[1].location_tripid = src.sdrts[1].location_tripid
  /\ df[1].location_tripid # 0

\* the output of trips for the Online trip: trip_id_location is 0 where the
\* source had 1, trip_id is the source's
C29_LocationKeyReached ==
  /\ pc = "done"
  /\ Len(src.sdrts) = 1
  /\ "trip_id_location" \in DOMAIN df[1]
  /\ src.sdrts[1].data_source = 2
  /\ src.sdrts[1].location_tripid = 1
  /\ df[1].trip_id_location = 0
  /\ df[1].trip_id = src.sdrts[1].tripid
----------------------------------------------------------------------------
(* Claims about the surrogate keys *)

\* the rows of `frame` carry in column `key` the numbers 0, 1, 2, ... in row order
Numbered(frame, key) == \A i \in DOMAIN frame : frame[i][key] = i - 1

\* point row a does not come after point row b in (trip_id_location,
\* collected_at) order; a point without a trip id comes last
PointNotAfter(a, b) ==
  \/ a.trip_id_location = b.trip_id_location /\ a.collected_at <= b.collected_at
  \/ a.trip_id_location # NA /\ (b.trip_id_location = NA \/ a.trip_id_location < b.trip_id_location)

\* the returned rows of a day run, a border_trips run, a location run
IsDayRun == df # <<>> /\ "day_id" \in DOMAIN df[1]
IsBorderRun == df # <<>> /\ "border_trip_id" \in DOMAIN df[1]
IsLocationRun == points # <<>>

\* C20: the surrogate keys are consecutive integers in output row order:
\* day_id numbers the concatenated rows, SDRTS rows first and none removed;
\* border_trip_id numbers the rows left by the drop; point_id numbers the
\* points in (trip_id_location, collected_at) order.
C20_KeysConsecutive ==
  pc = "done" =>
    /\ IsDayRun =>
         /\ Numbered(df, "day_id")
         /\ Len(df) = Len(SourceRows)
         /\ \A i \in DOMAIN df : df[i].number_trips = SourceRows[i].num_trips
    /\ IsBorderRun =>
         Numbered(df, "border_trip_id")
    /\ IsLocationRun =>
         /\ Numbered(points, "point_id")
         /\ Len(points) = Len(SourceRows)
         /\ \A i, j \in DOMAIN points : i < j => PointNotAfter(points[i], points[j])

\* C20 witness: two points read in the order (trip 2, trip 1) come out numbered
\* 0 for trip 1 and 1 for trip 2
C20_Witness ==
  /\ pc = "done"
  /\ Len(points) = 2
  /\ SourceRows[1].tripid = 2
  /\ SourceRows[2].tripid = 1
  /\ points[1].trip_id_location = 1 /\ points[1].point_id = 0
  /\ points[2].trip_id_location = 2 /\ points[2].point_id = 1

\* a day run with an SDRTS and an AT row came to its end
C20_DayReached ==
  pc = "done" /\ IsDayRun /\ Len(src.sdrts) = 1 /\ Len(src.at) = 1

\* a border_trips run with two rows left by the drop came to its end
C20_BorderReached ==
  pc = "done" /\ IsBorderRun /\ Len(df) >= 2
----------------------------------------------------------------------------
(* Claims about the cache of the table properties *)

\* the reads of property p before read n
EarlierReads(n) == {m \in 1..(n - 1) : log[m].property = log[n].property}

\* the last read of the same property before read n
Previous(n) == CHOOSE m \in EarlierReads(n) : \A k \in EarlierReads(n) : k <= m

\* the number of reads of property p that ran the body
Misses(p) == Cardinality({n \in DOMAIN log : log[n].property = p /\ ~log[n].hit})

\* C30: every table property has a cache of one entry keyed by the object: a
\* read of a property on the object that read it last builds nothing and
\* returns the table that read returned; a read on another object, or the
\* first read, builds a new table, and so does a later read on the first
\* object; and main.py, which creates a new object for every table, builds
\* every table exactly once.
C30_OneEntryPerProperty ==
  /\ \A n \in DOMAIN log :
       IF EarlierReads(n) # {} /\ log[Previous(n)].instance = log[n].instance
         THEN log[n].hit /\ log[n].table = log[Previous(n)].table
         ELSE /\ ~log[n].hit
              /\ \A m \in EarlierReads(n) : log[m].table # log[n].table
  /\ \A p \in Properties : built[p] = Misses(p)
  /\ pc = "main_done" => \A p \in Properties : built[p] = 1

\* C30 witness: day was read on a first object, on a second, and on the first
\* again, and was built three times
C30_Witness ==
  /\ pc = "client"
  /\ Len(log) = 3
  /\ \A n \in 1..3 : log[n].property = "day" /\ ~log[n].hit
  /\ log[1].instance = 1
  /\ log[2].instance = 2
  /\ log[3].instance = 1
  /\ built.day = 3
  /\ built.households = 0

\* the other cases of C30 happen: a second read on the same object is served
\* from the cache, also with a read of another property on another object in
\* between; and main.py has loaded the eight tables
C30_HitReached ==
  /\ pc = "client"
  /\ Len(log) = 3
  /\ log[1] = [property |-> "day", instance |-> 1, table |-> 1, hit |-> FALSE]
  /\ log[2] = [property |-> "households", instance |-> 2, table |-> 1, hit |-> FALSE]
  /\ log[3] = [property |-> "day", instance |-> 1, table |-> 1, hit |-> TRUE]
  /\ built.day = 1

C30_MainReached ==
  /\ pc = "main_done"
  /\ made = 8
  /\ Len(log) = 8
  /\ \A p \in Properties : built[p] = 1
=============================================================================
